---- MODULE Spec2Model ----
(***************************************************************************)
(* A model of the plan pre-processors of bluesky/plans.py: plan_mutator    *)
(* (the trampoline over a stack of generators) and the try/finally helper  *)
(* finalize_wrapper, driven by a RunEngine-like driver that answers each   *)
(* emitted Msg with a reply (send), a fault (throw) or a cancellation      *)
(* (close).                                                                *)
(*                                                                         *)
(* Generators are objects on a heap `gens` (a sequence).  The object is    *)
(* its index (what `is` compares); its field id is what id() returns, the  *)
(* address, which the interpreter may give again to a new object once the  *)
(* old one is no longer referenced.  send, throw and close are the Python  *)
(* generator protocol: each returns the new heap and what came out of the  *)
(* call (a yielded Msg, StopIteration with a value, or a raised            *)
(* exception).  A Msg instance is a number: equality of numbers is         *)
(* identity of instances (msgs_seen keeps every Msg it has seen alive, so  *)
(* the id of a Msg is never given to another).                             *)
(***************************************************************************)
EXTENDS Integers, Sequences, FiniteSets, TLC

\* gens: the heap of generator objects; gens[Root] is the generator the
\*   driver holds.
\* emitted: the Msgs the driver was handed, in order, each with the
\*   engine's plan_stack at that moment and the number of the yield of the
\*   top plan that produced it.
\* answers: the driver's answer to each emitted Msg: <<"send", reply>>,
\*   <<"throw", fault>> or <<"close", None>>.
\* ref: the plan alone, driven directly with the same answers.
\* pep479: whether the interpreter turns a StopIteration that leaves a
\*   generator body into RuntimeError (Python >= 3.7) or lets it end the
\*   generator (earlier versions).
\* result: what the driver's last call on gens[Root] produced, where the
\*   specification takes one step per call (SpecFinalize).
VARIABLES gens, emitted, answers, ref, pep479, result

vars == <<gens, emitted, answers, ref, pep479, result>>

\* ------------------------------------------------------------------ values

\* Python's None, as a reply value and as a completion value.
None == "None"
\* No pending exception (`exception = None`).
NoExc == "NoExc"
\* `None` in the place of a generator (head or tail absent) and of a Msg.
NoGen == 0
NoMsg == 0

\* What a generator call produces: the heap after the call and one of
\* "yield" (msg), "return" (StopIteration carrying val), "raise" (val).
Yielded(h, m) == [h |-> h, tag |-> "yield", msg |-> m, val |-> None]
Returned(h, v) == [h |-> h, tag |-> "return", msg |-> NoMsg, val |-> v]
Raised(h, e) == [h |-> h, tag |-> "raise", msg |-> NoMsg, val |-> e]

Last(s) == s[Len(s)]
Front(s) == SubSeq(s, 1, Len(s) - 1)
Upd(h, g, rec) == [h EXCEPT ![g] = rec]

\* The values a generator may return, and the exception StopIteration(v)
\* that carries the return value v out of send() and throw().
Values ==
    {None, "r1", "r2", "pv", "hv", "tv", "nv", "ntv", "fv", "xv", "ev"}
StopIteration(v) == "StopIteration:" \o v
IsStopIteration(e) == e \in {StopIteration(v) : v \in Values}
StopValue(e) == CHOOSE v \in Values : StopIteration(v) = e

\* The exception e leaves the frame of a generator, h being the heap then:
\* what the caller of send() or throw() gets.  A StopIteration leaving the
\* frame is RuntimeError under PEP 479 and looks like a return otherwise.
Escapes(h, e) ==
    IF ~IsStopIteration(e) THEN [h |-> h, tag |-> "raise", msg |-> 0, val |-> e]
    ELSE IF pep479
    THEN [h |-> h, tag |-> "raise", msg |-> 0, val |-> "RuntimeError"]
    ELSE [h |-> h, tag |-> "return", msg |-> 0, val |-> StopValue(e)]

\* ------------------------------------------------- leaf plans (generators)

\* A leaf plan is a generator function of the shape
\*     def plan():
\*         try:
\*             r1 = yield m1; ...; rk = yield mk      (msgs)
\*             [raise exc after the raiseAt-th reply] (raiseAt, -1: never)
\*         except Exception: [re-raise | raise exc | carry on]   (onThrow)
\*         return ret        (a fixed value, or "LAST": the last reply)
\* st is "fresh" (created, not started), "susp" (suspended at a yield),
\* "done" (returned or raised) or "closed"; pc counts the Msgs yielded; log
\* records every reply and fault the generator was resumed with.
Script(msgs, raiseAt, onThrow, exc, ret) ==
    [kind |-> "script", msgs |-> msgs, raiseAt |-> raiseAt,
     onThrow |-> onThrow, exc |-> exc, ret |-> ret,
     pc |-> 0, st |-> "fresh", log |-> <<>>, end |-> <<>>, id |-> 0]

\* The plan's frame ends: by `return v` or with exception e leaving it.  A
\* StopIteration leaving the frame is RuntimeError under PEP 479 and looks
\* like a return to the caller otherwise.
ScriptReturn(h, g, s, v) ==
    Returned(Upd(h, g, [s EXCEPT !.st = "done", !.end = <<"return", v>>]), v)

ScriptRaise(h, g, s, e) ==
    IF IsStopIteration(e) /\ ~pep479
    THEN Returned(Upd(h, g, [s EXCEPT !.st = "done",
                                      !.end = <<"raise", e>>]), StopValue(e))
    ELSE LET x == IF IsStopIteration(e) THEN "RuntimeError" ELSE e IN
         Raised(Upd(h, g, [s EXCEPT !.st = "done", !.end = <<"raise", x>>]), x)

\* The body of a leaf plan from its current position, resumed with v.
ScriptContinue(h, g, s, v) ==
    IF s.pc = s.raiseAt THEN ScriptRaise(h, g, s, s.exc)
    ELSE IF s.pc < Len(s.msgs)
    THEN Yielded(Upd(h, g, [s EXCEPT !.st = "susp", !.pc = s.pc + 1]),
                 s.msgs[s.pc + 1])
    ELSE ScriptReturn(h, g, s, IF s.ret = "LAST" THEN v ELSE s.ret)

ScriptSend(h, g, v) ==
    LET s == h[g] IN
    IF s.st \in {"done", "closed"} THEN Returned(h, None)
    ELSE IF s.st = "fresh" THEN ScriptContinue(h, g, s, v)
    ELSE ScriptContinue(h, g, [s EXCEPT !.log = Append(s.log, <<"send", v>>)], v)

ScriptThrow(h, g, e) ==
    LET s == h[g] IN
    IF s.st = "fresh" THEN ScriptRaise(h, g, s, e)
    ELSE IF s.st # "susp" THEN Raised(h, e)
    ELSE LET t == [s EXCEPT !.log = Append(s.log, <<"throw", e>>)] IN
         CASE s.onThrow = "propagate" -> ScriptRaise(h, g, t, e)
           [] s.onThrow = "convert" -> ScriptRaise(h, g, t, s.exc)
           [] OTHER ->
                IF t.pc < Len(t.msgs)
                THEN Yielded(Upd(h, g, [t EXCEPT !.pc = t.pc + 1]),
                             t.msgs[t.pc + 1])
                ELSE ScriptReturn(h, g, t,
                                  IF t.ret = "LAST" THEN None ELSE t.ret)

ScriptClose(h, g) ==
    LET s == h[g] IN
    IF s.st \in {"fresh", "susp"}
    THEN Returned(Upd(h, g, [s EXCEPT !.st = "closed"]), None)
    ELSE Returned(h, None)

\* single_gen(msg): yields msg once and returns the reply it was sent.
single_gen(m) == Script(<<m>>, -1, "propagate", "ESingle", "LAST")

\* --------------------------------------------------- generator protocol

\* generator.send / .throw / .close on the generator g of heap h, whatever
\* its kind: generator(h, g, method, argument) is defined below, after the bodies
\* of the composite generators.
RECURSIVE generator(_, _, _, _)
send(h, g, v) == generator(h, g, "send", v)
throw(h, g, ex) == generator(h, g, "throw", ex)
close(h, g) == generator(h, g, "close", None)

\* The object rec at the address a.
At(rec, a) == [rec EXCEPT !.id = a]

\* A dict keyed by id(generator), as a set of <<key, value>> pairs.
Has(c, k) == \E p \in c : p[1] = k
Get(c, k) == (CHOOSE p \in c : p[1] = k)[2]
Pop(c, k) == {p \in c : p[1] # k}
Put(c, k, v) == Pop(c, k) \cup {<<k, v>>}

\* `None` returned by msg_proc in the place of head or tail.
NoTemplate == [kind |-> "None"]
\* msg_proc(msg) returning (None, None).
PassThrough == [raises |-> FALSE, head |-> NoTemplate, tail |-> NoTemplate]

\* ---------------------------------------------------------- plan_mutator

\* The generator object plan_mutator(plan, msg_proc) before its first
\* next(): nothing of the body has run.  msg_proc is a table from Msg
\* instance to what the call returns.  pc is the position in the body:
\* "fresh", "top" (the head of `while True`), "offer" (line 184, msg in
\* hand), "yield" (suspended at line 205), "returned", "raised", "closed".
\* exhausted_gen, failed_gen, gen, new_gen and tail_gen are the local
\* variables of these names: each keeps the generator it was last bound to
\* alive.
\* offered, splices, close_log and out are history: the Msgs handed to
\* msg_proc, what each call spliced in (the Msg, the generator that yielded
\* it and at which of its yields, the head pushed and its tail), the
\* generators closed at line 210 in order, the value returned or raised.
plan_mutator(plan, msg_proc) ==
    [kind |-> "plan_mutator", plan |-> plan, msg_proc |-> msg_proc,
     msgs_seen |-> {}, plan_stack |-> <<>>, result_stack |-> <<>>,
     tail_cache |-> {}, tail_result_cache |-> {}, exception |-> NoExc,
     parent_plan |-> NoGen, ret_value |-> None, msg |-> NoMsg,
     exhausted_gen |-> NoGen, failed_gen |-> NoGen, gen |-> NoGen,
     new_gen |-> NoGen, tail_gen |-> NoGen, id |-> 0,
     pc |-> "fresh", offered |-> <<>>, splices |-> <<>>, close_log |-> <<>>,
     out |-> None]

\* The engine's own termination with exception ex (a bare `raise`, or an
\* uncaught error of the body); e is the engine's record at that moment.
PMRaise(h, g, e, ex) ==
    IF IsStopIteration(ex) /\ ~pep479
    THEN Upd(h, g, [e EXCEPT !.pc = "returned", !.out = StopValue(ex)])
    ELSE Upd(h, g, [e EXCEPT !.pc = "raised",
                    !.out = IF IsStopIteration(ex) THEN "RuntimeError" ELSE ex])

\* Lines 98-110: the first next() runs the body up to `while True`.
PMStart(h, g) ==
    Upd(h, g, [h[g] EXCEPT !.parent_plan = h[g].plan, !.ret_value = None,
                           !.plan_stack = <<h[g].plan>>,
                           !.result_stack = <<None>>, !.pc = "top"])

\* Lines 118-127 and 176-180: the top plan is dead (stack is what is left of
\* plan_stack); the exception is stashed for the plan beneath, or leaves
\* the engine when there is none.
PMStash(h, g, stack, ex) ==
    IF stack # <<>>
    THEN Upd(h, g, [h[g] EXCEPT !.plan_stack = stack, !.exception = ex])
    ELSE PMRaise(h, g, [h[g] EXCEPT !.plan_stack = stack], ex)

\* Lines 116-129 with line 123 left out: the exception that was thrown in
\* stays stashed, not the one the top plan raised.
PMAfterThrow_KeepsOldException(g, r) ==
    IF r.tag = "yield"
    THEN Upd(r.h, g, [r.h[g] EXCEPT !.msg = r.msg, !.exception = NoExc,
                                    !.pc = "offer"])
    ELSE PMStash(r.h, g, Front(r.h[g].plan_stack), r.h[g].exception)

\* Lines 116-129 without the else branch of line 129: the exception stays
\* stashed after the top plan has handled it.
PMAfterThrow_StaysPending(g, r) ==
    IF r.tag = "yield"
    THEN Upd(r.h, g, [r.h[g] EXCEPT !.msg = r.msg, !.pc = "offer"])
    ELSE PMStash(r.h, g, Front(r.h[g].plan_stack),
                 IF r.tag = "return" THEN StopIteration(r.val) ELSE r.val)

\* Lines 116-129, with r what plan_stack[-1].throw(exception) produced.
\* `except Exception as e` also catches the StopIteration of a plan that
\* handled the exception by returning.
PMAfterThrow(g, r) ==
    IF r.tag = "yield"
    THEN Upd(r.h, g, [r.h[g] EXCEPT !.msg = r.msg, !.exception = NoExc,
                                    !.pc = "offer"])
    ELSE PMStash(r.h, g, Front(r.h[g].plan_stack),
                 IF r.tag = "return" THEN StopIteration(r.val) ELSE r.val)

\* Lines 114-129: a stashed exception is thrown into the top plan.
PMThrowStep(h, g) ==
    IF h[g].plan_stack = <<>> THEN PMRaise(h, g, h[g], "IndexError")
    ELSE PMAfterThrow(g, throw(h, Last(h[g].plan_stack), h[g].exception))

\* Lines 148-162 without the pop of line 154: the saved result stays on
\* result_stack beneath the None that primes the tail.
PMPushTail_KeepsSaved(h, g, exhausted_gen, ret, tail_gen, ret_value) ==
    Upd(h, g, [h[g] EXCEPT
        !.exhausted_gen = exhausted_gen,
        !.gen = IF Has(h[g].tail_cache, h[exhausted_gen].id) THEN tail_gen ELSE @,
        !.ret_value = ret_value,
        !.tail_cache = Pop(@, h[exhausted_gen].id),
        !.tail_result_cache =
            IF tail_gen # NoGen
            THEN Put(Pop(@, h[exhausted_gen].id), h[tail_gen].id, ret)
            ELSE Pop(@, h[exhausted_gen].id),
        !.plan_stack = IF tail_gen # NoGen THEN Append(Front(@), tail_gen)
                       ELSE Front(@),
        !.result_stack = IF tail_gen # NoGen THEN Append(Append(@, ret), None)
                         ELSE Append(@, ret),
        !.pc = IF tail_gen = NoGen /\ Len(h[g].plan_stack) = 1
               THEN "returned" ELSE "top",
        !.out = IF tail_gen = NoGen /\ Len(h[g].plan_stack) = 1
                THEN ret_value ELSE @])

\* Lines 148-162: ret is appended to result_stack; the tail registered for
\* the exhausted generator (tail_gen, NoGen when none) is pushed with ret
\* saved for it and None to prime it; the engine returns when the stack is
\* empty.
PMPushTail(h, g, exhausted_gen, ret, tail_gen, ret_value) ==
    Upd(h, g, [h[g] EXCEPT
        !.exhausted_gen = exhausted_gen,
        !.gen = IF Has(h[g].tail_cache, h[exhausted_gen].id) THEN tail_gen ELSE @,
        !.ret_value = ret_value,
        !.tail_cache = Pop(@, h[exhausted_gen].id),
        !.tail_result_cache =
            IF tail_gen # NoGen
            THEN Put(Pop(@, h[exhausted_gen].id), h[tail_gen].id, ret)
            ELSE Pop(@, h[exhausted_gen].id),
        !.plan_stack = IF tail_gen # NoGen THEN Append(Front(@), tail_gen)
                       ELSE Front(@),
        !.result_stack = Append(@, IF tail_gen # NoGen THEN None ELSE ret),
        !.pc = IF tail_gen = NoGen /\ Len(h[g].plan_stack) = 1
               THEN "returned" ELSE "top",
        !.out = IF tail_gen = NoGen /\ Len(h[g].plan_stack) = 1
                THEN ret_value ELSE @])

\* Lines 134-148 with e.value appended to result_stack in place of ret:
\* the plan beneath is resumed with the return value of the exhausted
\* generator.
PMExhausted_RepliesValue(h, g, exhausted_gen, ret, value) ==
    PMPushTail(h, g, exhausted_gen,
               IF Has(h[g].tail_result_cache, h[exhausted_gen].id)
               THEN Get(h[g].tail_result_cache, h[exhausted_gen].id) ELSE value,
               IF Has(h[g].tail_cache, h[exhausted_gen].id)
               THEN Get(h[g].tail_cache, h[exhausted_gen].id) ELSE NoGen,
               IF exhausted_gen = h[g].parent_plan THEN value
               ELSE h[g].ret_value)

\* Lines 134-147: the top plan returned `value` when sent ret.  The return
\* value of the parent plan is kept; a tail's result is replaced by the one
\* cached for it.
PMExhausted(h, g, exhausted_gen, ret, value) ==
    PMPushTail(h, g, exhausted_gen,
               IF Has(h[g].tail_result_cache, h[exhausted_gen].id)
               THEN Get(h[g].tail_result_cache, h[exhausted_gen].id) ELSE ret,
               IF Has(h[g].tail_cache, h[exhausted_gen].id)
               THEN Get(h[g].tail_cache, h[exhausted_gen].id) ELSE NoGen,
               IF exhausted_gen = h[g].parent_plan THEN value
               ELSE h[g].ret_value)

\* Lines 163-180: the top plan raised ex when sent the result.  Its
\* registered tail, if any, takes its place on the stack.
PMFailed(h, g, failed_gen, ex) ==
    PMStash(Upd(h, g, [h[g] EXCEPT
                !.failed_gen = failed_gen,
                !.gen = IF Has(h[g].tail_cache, h[failed_gen].id)
                        THEN Get(h[g].tail_cache, h[failed_gen].id) ELSE @,
                !.tail_cache = Pop(@, h[failed_gen].id)]), g,
            IF Has(h[g].tail_cache, h[failed_gen].id)
               /\ Get(h[g].tail_cache, h[failed_gen].id) # NoGen
            THEN Append(Front(h[g].plan_stack),
                        Get(h[g].tail_cache, h[failed_gen].id))
            ELSE Front(h[g].plan_stack),
            ex)

\* Lines 132-180, with r what plan_stack[-1].send(ret) produced.
PMAfterSend(g, top, ret, r) ==
    CASE r.tag = "yield" ->
           Upd(r.h, g, [r.h[g] EXCEPT !.msg = r.msg, !.pc = "offer"])
      [] r.tag = "return" -> PMExhausted(r.h, g, top, ret, r.val)
      [] OTHER -> PMFailed(r.h, g, top, r.val)

\* Lines 131-180: the saved result is sent into the top plan.
PMSendStep(h, g) ==
    IF h[g].result_stack = <<>> \/ h[g].plan_stack = <<>>
    THEN PMRaise(h, g, h[g], "IndexError")
    ELSE PMAfterSend(g, Last(h[g].plan_stack), Last(h[g].result_stack),
                     send(Upd(h, g, [h[g] EXCEPT !.result_stack = Front(@)]),
                          Last(h[g].plan_stack), Last(h[g].result_stack)))

\* How many Msgs the leaf plan p has yielded so far (0 for another kind).
YieldCount(h, p) == IF h[p].kind = "script" THEN h[p].pc ELSE 0

\* Lines 193-201 without the `continue` of line 201: the head is pushed and
\* the Msg is yielded all the same.
PMPush_FallsThrough(h, g, new_gen, tail_gen) ==
    IF new_gen # NoGen
    THEN Upd(h, g, [h[g] EXCEPT
             !.new_gen = new_gen, !.tail_gen = tail_gen,
             !.plan_stack = Append(@, new_gen),
             !.result_stack = Append(@, None),
             !.tail_cache = Put(@, h[new_gen].id, tail_gen),
             !.pc = "yield"])
    ELSE Upd(h, g, [h[g] EXCEPT !.new_gen = new_gen, !.tail_gen = tail_gen,
                                !.pc = "yield"])

\* Lines 193-201 without line 196: the head is pushed and no None is put
\* on result_stack for it.
PMPush_Unprimed(h, g, new_gen, tail_gen) ==
    IF new_gen # NoGen
    THEN Upd(h, g, [h[g] EXCEPT
             !.new_gen = new_gen, !.tail_gen = tail_gen,
             !.plan_stack = Append(@, new_gen),
             !.tail_cache = Put(@, h[new_gen].id, tail_gen),
             !.splices = Append(@, [msg |-> h[g].msg,
                                    em |-> Last(h[g].plan_stack),
                                    idx |-> YieldCount(h, Last(h[g].plan_stack)),
                                    head |-> new_gen, tail |-> tail_gen]),
             !.pc = "top"])
    ELSE Upd(h, g, [h[g] EXCEPT !.new_gen = new_gen, !.tail_gen = tail_gen,
                                !.pc = "yield"])

\* Lines 193-201: new_gen (an object of heap h, NoGen for None) is pushed
\* with None to prime it and its tail is stashed; without one the Msg is
\* yielded (line 205).
PMPush(h, g, new_gen, tail_gen) ==
    IF new_gen # NoGen
    THEN Upd(h, g, [h[g] EXCEPT
             !.new_gen = new_gen, !.tail_gen = tail_gen,
             !.plan_stack = Append(@, new_gen),
             !.result_stack = Append(@, None),
             !.tail_cache = Put(@, h[new_gen].id, tail_gen),
             !.splices = Append(@, [msg |-> h[g].msg,
                                    em |-> Last(h[g].plan_stack),
                                    idx |-> YieldCount(h, Last(h[g].plan_stack)),
                                    head |-> new_gen, tail |-> tail_gen]),
             !.pc = "top"])
    ELSE Upd(h, g, [h[g] EXCEPT !.new_gen = new_gen, !.tail_gen = tail_gen,
                                !.pc = "yield"])

\* The generators the frame of the engine g refers to: the stacked ones,
\* the stashed tails, the plan and those its local variables are bound to.
Held(h, g) ==
    ({h[g].plan_stack[i] : i \in 1..Len(h[g].plan_stack)}
       \cup {p[2] : p \in h[g].tail_cache}
       \cup {g, h[g].plan, h[g].parent_plan, h[g].exhausted_gen,
             h[g].failed_gen, h[g].gen}) \ {NoGen}

\* The addresses of objects that are gone, when the objects of `kept` are
\* referred to as well: a new object may be given one of them.
Vacant(h, g, kept) ==
    {h[p].id : p \in 1..Len(h)} \ {h[p].id : p \in (Held(h, g) \cup kept) \ {NoGen}}

\* The addresses a = <<a1, a2>> the interpreter may give to the (at most
\* two) generators made while msg p is offered, in the order they are put
\* on the heap; 0 stands for an address never used before.  msg_proc runs
\* while new_gen and tail_gen are still bound to the generators of the call
\* before; single_gen(msg) of line 192 is made after they are rebound.
Addresses(h, g) ==
    {a \in (Vacant(h, g, {h[g].new_gen, h[g].tail_gen}) \cup {0})
            \X (Vacant(h, g, {}) \cup {0}) :
        /\ a[1] # 0 => a[1] # a[2]
        /\ (a[2] \notin Vacant(h, g, {h[g].new_gen, h[g].tail_gen}) \cup {0})
              => LET p == h[g].msg_proc[h[g].msg] IN
                 ~p.raises /\ p.head = NoTemplate /\ p.tail # NoTemplate}

\* The address of the object put on the heap at index i: a, or a new one.
Addr(a, i) == IF a = 0 THEN i ELSE a

\* Lines 189-201 with the call of msg_proc inside a try block whose handler
\* stashes the exception for the generator on top of the stack.
PMSplice_ThrowsIntoStack(h, g, p, a) ==
    CASE p.raises ->
           Upd(h, g, [h[g] EXCEPT !.exception = "EProc", !.pc = "top"])
      [] p.head # NoTemplate /\ p.tail # NoTemplate ->
           PMPush(h \o <<At(p.head, Addr(a[1], Len(h) + 1)),
                         At(p.tail, Addr(a[2], Len(h) + 2))>>,
                  g, Len(h) + 1, Len(h) + 2)
      [] p.head # NoTemplate ->
           PMPush(Append(h, At(p.head, Addr(a[1], Len(h) + 1))),
                  g, Len(h) + 1, NoGen)
      [] p.tail # NoTemplate ->
           PMPush(h \o <<At(p.tail, Addr(a[1], Len(h) + 1)),
                         At(single_gen(h[g].msg), Addr(a[2], Len(h) + 2))>>,
                  g, Len(h) + 2, Len(h) + 1)
      [] OTHER -> PMPush(h, g, NoGen, NoGen)

\* Lines 189-192: p is what msg_proc(msg) returned; the generators it
\* made, and single_gen(msg) for a tail without a head, are new objects.
PMSplice(h, g, p, a) ==
    CASE p.raises -> PMRaise(h, g, h[g], "EProc")
      [] p.head # NoTemplate /\ p.tail # NoTemplate ->
           PMPush(h \o <<At(p.head, Addr(a[1], Len(h) + 1)),
                         At(p.tail, Addr(a[2], Len(h) + 2))>>,
                  g, Len(h) + 1, Len(h) + 2)
      [] p.head # NoTemplate ->
           PMPush(Append(h, At(p.head, Addr(a[1], Len(h) + 1))),
                  g, Len(h) + 1, NoGen)
      [] p.tail # NoTemplate ->
           PMPush(h \o <<At(p.tail, Addr(a[1], Len(h) + 1)),
                         At(single_gen(h[g].msg), Addr(a[2], Len(h) + 2))>>,
                  g, Len(h) + 2, Len(h) + 1)
      [] OTHER -> PMPush(h, g, NoGen, NoGen)

\* Lines 184-201 with line 187 left out: the Msg is handed to msg_proc and
\* not recorded in msgs_seen.
PMOfferStep_ForgetsSeen(h, g, a) ==
    IF h[g].msg \in h[g].msgs_seen THEN Upd(h, g, [h[g] EXCEPT !.pc = "yield"])
    ELSE PMSplice(Upd(h, g, [h[g] EXCEPT !.offered = Append(@, h[g].msg)]),
                  g, h[g].msg_proc[h[g].msg], a)

\* Lines 184-201 with msg_proc applied to the Msgs of the plan only: a Msg
\* yielded by a spliced-in generator goes straight to the yield.
PMOfferStep_OnlyPlan(h, g, a) ==
    IF h[g].msg \in h[g].msgs_seen \/ Len(h[g].plan_stack) > 1
    THEN Upd(h, g, [h[g] EXCEPT !.pc = "yield"])
    ELSE PMSplice(Upd(h, g, [h[g] EXCEPT
                      !.msgs_seen = @ \cup {h[g].msg},
                      !.offered = Append(@, h[g].msg)]),
                  g, h[g].msg_proc[h[g].msg], a)

\* Lines 184-201: a Msg not seen before is recorded and handed to msg_proc.
PMOfferStep(h, g, a) ==
    IF h[g].msg \in h[g].msgs_seen THEN Upd(h, g, [h[g] EXCEPT !.pc = "yield"])
    ELSE PMSplice(Upd(h, g, [h[g] EXCEPT
                      !.msgs_seen = @ \cup {h[g].msg},
                      !.offered = Append(@, h[g].msg)]),
                  g, h[g].msg_proc[h[g].msg], a)

\* Line 219 with the reply dropped: the plan is resumed with None.
PMResume_DropsReply(h, g, v) ==
    Upd(h, g, [h[g] EXCEPT !.result_stack = Append(@, None), !.pc = "top"])

\* Line 219: resumed at the yield with a reply.
PMResume(h, g, v) ==
    Upd(h, g, [h[g] EXCEPT !.result_stack = Append(@, v), !.pc = "top"])

\* Lines 212-217: an exception thrown in at the yield.
PMCatch(h, g, ex) ==
    IF h[g].plan_stack # <<>>
    THEN Upd(h, g, [h[g] EXCEPT !.exception = ex, !.pc = "top"])
    ELSE PMRaise(h, g, h[g], ex)

\* Lines 209-211: `for p in plan_stack: p.close()`, from index i on, r
\* being what the close() before produced; the loop ends at the first
\* close() that raises, and GeneratorExit is re-raised after it.
RECURSIVE PMCloseFrom(_, _, _)
PMCloseFrom(g, i, r) ==
    CASE r.tag = "raise" -> PMRaise(r.h, g, r.h[g], r.val)
      [] i > Len(r.h[g].plan_stack) ->
           Upd(r.h, g, [r.h[g] EXCEPT !.pc = "closed"])
      [] OTHER ->
           PMCloseFrom(g, i + 1,
               close(Upd(r.h, g, [r.h[g] EXCEPT !.close_log =
                            Append(@, r.h[g].plan_stack[i])]),
                     r.h[g].plan_stack[i]))

\* `for p in reversed(plan_stack): p.close()`, from index i down.
RECURSIVE PMCloseDownFrom(_, _, _)
PMCloseDownFrom(g, i, r) ==
    CASE r.tag = "raise" -> PMRaise(r.h, g, r.h[g], r.val)
      [] i < 1 -> Upd(r.h, g, [r.h[g] EXCEPT !.pc = "closed"])
      [] OTHER ->
           PMCloseDownFrom(g, i - 1,
               close(Upd(r.h, g, [r.h[g] EXCEPT !.close_log =
                            Append(@, r.h[g].plan_stack[i])]),
                     r.h[g].plan_stack[i]))

\* Lines 206-211 with the loop run from the top of the stack down.
PMClose_TopFirst(h, g) ==
    PMCloseDownFrom(g, Len(h[g].plan_stack), Returned(h, None))

\* Lines 206-211 with `plan_stack[-1].close()` in place of the loop.
PMClose_TopOnly(h, g) ==
    PMCloseFrom(g, Len(h[g].plan_stack), Returned(h, None))

\* Lines 206-211: GeneratorExit at the yield.
PMClose(h, g) == PMCloseFrom(g, 1, Returned(h, None))

\* The engine run from its current position to its next suspension or end
\* (what one send/throw on the engine does when it is itself a sub-plan);
\* the generators made on the way are given new addresses.
RECURSIVE PMRun(_, _)
PMRun(h, g) ==
    LET e == h[g] IN
    CASE e.pc = "top" ->
           PMRun(IF e.exception # NoExc THEN PMThrowStep(h, g)
                 ELSE PMSendStep(h, g), g)
      [] e.pc = "offer" -> PMRun(PMOfferStep(h, g, <<0, 0>>), g)
      [] e.pc = "yield" -> Yielded(h, e.msg)
      [] e.pc = "returned" -> Returned(h, e.out)
      [] e.pc = "raised" -> Raised(h, e.out)
      [] OTHER -> Returned(h, None)

\* ------------------------------------------------------ finalize_wrapper

\* The generator object finalize_wrapper(plan, final_plan, pause_for_debug)
\* before its first next().  final_plan_instance is the generator of line
\* 1141-1144; pause_msg is the Msg instance pause() yields.  at is the
\* position: "fresh", "plan" (in `yield from plan`, line 1147), "pause"
\* (line 1153), "final" (line 1166), "done", "closed".  pending is what
\* follows the finally block: ("return", ret) or ("raise", exception).
finalize_wrapper(plan, final_plan_instance, pause_for_debug, pause_msg) ==
    [kind |-> "finalize_wrapper", plan |-> plan,
     final_plan_instance |-> final_plan_instance,
     pause_for_debug |-> pause_for_debug, pause_msg |-> pause_msg,
     cleanup |-> TRUE, at |-> "fresh", pending |-> <<"return", None>>,
     id |-> 0]

\* Leaving the generator: the pending return or raise.
FinLeave(h, g, pending) ==
    LET h1 == Upd(h, g, [h[g] EXCEPT !.at = "done", !.pending = pending]) IN
    IF pending[1] = "return" THEN Returned(h1, pending[2])
    ELSE Escapes(h1, pending[2])

\* Line 1166 with the value of the final plan returned (as `return (yield
\* from ...)` in the finally block would).
FinInFinal_ReturnsFinalValue(h, g, r, pending) ==
    CASE r.tag = "yield" ->
           Yielded(Upd(r.h, g, [r.h[g] EXCEPT !.at = "final",
                                              !.pending = pending]), r.msg)
      [] r.tag = "return" -> FinLeave(r.h, g, <<"return", r.val>>)
      [] OTHER -> FinLeave(r.h, g, <<"raise", r.val>>)

\* Line 1166 with an exception of the final plan swallowed: what was
\* pending when the finally block was entered follows all the same.
FinInFinal_KeepsPending(h, g, r, pending) ==
    CASE r.tag = "yield" ->
           Yielded(Upd(r.h, g, [r.h[g] EXCEPT !.at = "final",
                                              !.pending = pending]), r.msg)
      [] OTHER -> FinLeave(r.h, g, pending)

\* Line 1166 while it runs: r is what final_plan_instance just produced.
FinInFinal(h, g, r, pending) ==
    CASE r.tag = "yield" ->
           Yielded(Upd(r.h, g, [r.h[g] EXCEPT !.at = "final",
                                              !.pending = pending]), r.msg)
      [] r.tag = "return" -> FinLeave(r.h, g, pending)
      [] OTHER -> FinLeave(r.h, g, <<"raise", r.val>>)

\* Lines 1151-1154 without the `raise`: the exception is dropped once the
\* finally block is through.
FinFinally_DropsException(h, g, pending) ==
    IF h[g].cleanup
    THEN FinInFinal(h, g, send(h, h[g].final_plan_instance, None),
                    <<"return", None>>)
    ELSE FinLeave(h, g, <<"return", None>>)

\* Lines 1155-1166: the finally block, entered with `pending` to follow.
FinFinally(h, g, pending) ==
    IF h[g].cleanup
    THEN FinInFinal(h, g, send(h, h[g].final_plan_instance, None), pending)
    ELSE FinLeave(h, g, pending)

\* Lines 1146-1154: r is what `yield from plan` just produced.
FinInPlan(h, g, r) ==
    CASE r.tag = "yield" ->
           Yielded(Upd(r.h, g, [r.h[g] EXCEPT !.at = "plan"]), r.msg)
      [] r.tag = "return" -> FinFinally(r.h, g, <<"return", r.val>>)
      [] OTHER ->
           IF r.h[g].pause_for_debug
           THEN Yielded(Upd(r.h, g, [r.h[g] EXCEPT
                            !.at = "pause", !.pending = <<"raise", r.val>>]),
                        r.h[g].pause_msg)
           ELSE FinFinally(r.h, g, <<"raise", r.val>>)

FinSend(h, g, v) ==
    LET w == h[g] IN
    CASE w.at = "fresh" -> FinInPlan(h, g, send(h, w.plan, None))
      [] w.at = "plan" -> FinInPlan(h, g, send(h, w.plan, v))
      [] w.at = "pause" -> FinFinally(h, g, w.pending)
      [] w.at = "final" ->
           FinInFinal(h, g, send(h, w.final_plan_instance, v), w.pending)
      [] OTHER -> Returned(h, None)

FinThrow(h, g, ex) ==
    LET w == h[g] IN
    CASE w.at = "plan" -> FinInPlan(h, g, throw(h, w.plan, ex))
      [] w.at = "pause" -> FinFinally(h, g, <<"raise", ex>>)
      [] w.at = "final" ->
           FinInFinal(h, g, throw(h, w.final_plan_instance, ex), w.pending)
      [] OTHER -> Raised(Upd(h, g, [w EXCEPT !.at =
                         IF w.at = "fresh" THEN "done" ELSE w.at]), ex)

\* close(): GeneratorExit raised at the suspension point.  Lines 1148-1150
\* switch cleanup off when it arrives in `yield from plan`; a generator that
\* yields again instead of ending makes close() raise RuntimeError.
FinCloseEnd(h, g, r) ==
    IF r.tag = "yield" THEN Raised(r.h, "RuntimeError")
    ELSE IF r.tag = "raise" THEN r
    ELSE Returned(Upd(r.h, g, [r.h[g] EXCEPT !.at = "closed"]), None)

\* Lines 1148-1150 without `cleanup = False`: the finally block runs the
\* final plan while the GeneratorExit is pending.
FinClose_RunsCleanup(h, g) ==
    LET w == h[g] IN
    IF w.at = "plan"
    THEN LET r == close(h, w.plan) IN
         FinCloseEnd(r.h, g, FinFinally(r.h, g, <<"return", None>>))
    ELSE Returned(Upd(h, g, [w EXCEPT !.at = "closed"]), None)

FinClose(h, g) ==
    LET w == h[g] IN
    CASE w.at = "fresh" -> Returned(Upd(h, g, [w EXCEPT !.at = "closed"]), None)
      [] w.at = "plan" ->
           LET r == close(h, w.plan) IN
           IF r.tag = "raise"
           THEN FinCloseEnd(r.h, g, FinInPlan(r.h, g, r))
           ELSE Returned(Upd(r.h, g, [r.h[g] EXCEPT !.cleanup = FALSE,
                                                    !.at = "closed"]), None)
      [] w.at = "pause" ->
           FinCloseEnd(h, g, FinFinally(h, g, <<"return", None>>))
      [] w.at = "final" ->
           LET r == close(h, w.final_plan_instance) IN
           IF r.tag = "raise" THEN FinLeave(r.h, g, <<"raise", r.val>>)
           ELSE Returned(Upd(r.h, g, [r.h[g] EXCEPT !.at = "closed"]), None)
      [] OTHER -> Returned(h, None)

\* --------------------------------------------------- contingency_wrapper

\* The generator object contingency_wrapper(plan, except_plan=, else_plan=,
\* final_plan=, pause_for_debug=) before its first next().  except_plan,
\* else_plan and final_plan are the generators the calls except_plan(e),
\* else_plan() and final_plan() make (NoGen: the hook was not given);
\* pause_msg is the Msg instance pause() yields.  at is the position:
\* "fresh", "plan" (line 1209), "pause" (line 1215), "except" (line 1219),
\* "else" (line 1223), "final" (line 1235), "done", "closed".  pending is
\* what follows the block being run: ("return", ret) or ("raise", e).
contingency_wrapper(plan, except_plan, else_plan, final_plan, pause_for_debug, pause_msg) ==
    [kind |-> "contingency_wrapper", plan |-> plan,
     except_plan |-> except_plan, else_plan |-> else_plan,
     final_plan |-> final_plan,
     pause_for_debug |-> pause_for_debug, pause_msg |-> pause_msg,
     cleanup |-> TRUE, at |-> "fresh", pending |-> <<"return", None>>,
     id |-> 0]

\* The hooks run_wrapper gives to contingency_wrapper: open_run, close_run.
\* The Msg instances of run bracketing: Msg('open_run', **md),
\* Msg('close_run', exit_status=None, reason=None) and, for the fault
\* whose text is the n-th of FaultTexts, Msg('close_run',
\* exit_status='fail', reason=<that text>), which is CloseRun + n.
OpenRun == 91
CloseRun == 92

\* str(e): the text of a fault, as its place in the list of the texts.
FaultTexts ==
    <<"EPlan", "EDrv", "RuntimeError", "RunEngineControlException", "ERun">>
str(e) == CHOOSE n \in 1..Len(FaultTexts) : FaultTexts[n] = e

\* open_run(md): return (yield Msg('open_run', **md)).
open_run == Script(<<OpenRun>>, -1, "propagate", "EOpen", "LAST")

\* close_run(exit_status, reason): return (yield Msg('close_run', ...)).
close_run(exit_status, reason) ==
    Script(<<IF exit_status = None THEN CloseRun ELSE CloseRun + reason>>,
           -1, "propagate", "EClose", "LAST")

\* isinstance(e, RunEngineControlException).
IsControl(e) == e = "RunEngineControlException"

\* A close_run that reports every fault as a failure.
except_plan_AlwaysFail(e) == close_run("fail", str(e))

\* The generator except_plan(e) of run_wrapper (lines 936-941) makes.
except_plan(e) ==
    IF IsControl(e) THEN close_run(None, None) ELSE close_run("fail", str(e))

\* The generator function except_plan of run_wrapper, before it is called.
ExceptPlanFunction == [kind |-> "except_plan", id |-> 0]

\* The call f(e) of line 1219: a generator function that looks at e makes
\* its generator now, in the place kept for it; the generators of the
\* other hooks do not depend on e and are in the heap already.
Call(h, f, e) ==
    IF h[f].kind = "except_plan"
    THEN Upd(h, f, [except_plan(e) EXCEPT !.id = h[f].id])
    ELSE h

\* The generator suspends at the Msg m, at position `at`.
ConYield(h, g, at, pending, m) ==
    Yielded(Upd(h, g, [h[g] EXCEPT !.at = at, !.pending = pending]), m)

\* Leaving the generator: line 1236, or the exception that is pending.
ConLeave(h, g, pending) ==
    LET h1 == Upd(h, g, [h[g] EXCEPT !.at = "done", !.pending = pending]) IN
    IF pending[1] = "return" THEN Returned(h1, pending[2])
    ELSE Escapes(h1, pending[2])

\* Line 1235 while it runs: r is what final_plan() just produced.
ConInFinal(h, g, r, pending) ==
    CASE r.tag = "yield" -> ConYield(r.h, g, "final", pending, r.msg)
      [] r.tag = "return" -> ConLeave(r.h, g, pending)
      [] OTHER -> ConLeave(r.h, g, <<"raise", r.val>>)

\* Lines 1224-1235: the finally block, entered with `pending` to follow.
ConFinally(h, g, pending) ==
    IF h[g].cleanup /\ h[g].final_plan # NoGen
    THEN ConInFinal(h, g, send(h, h[g].final_plan, None), pending)
    ELSE ConLeave(h, g, pending)

\* Line 1223 outside the try statement: an exception of else_plan() leaves
\* the wrapper without the finally block.
ConInElse_SkipsFinal(h, g, r, pending) ==
    CASE r.tag = "yield" -> ConYield(r.h, g, "else", pending, r.msg)
      [] r.tag = "return" -> ConFinally(r.h, g, pending)
      [] OTHER -> ConLeave(r.h, g, <<"raise", r.val>>)

\* Line 1223 while it runs: r is what else_plan() just produced.
ConInElse(h, g, r, pending) ==
    CASE r.tag = "yield" -> ConYield(r.h, g, "else", pending, r.msg)
      [] r.tag = "return" -> ConFinally(r.h, g, pending)
      [] OTHER -> ConFinally(r.h, g, <<"raise", r.val>>)

\* Lines 1221-1235 with the final plan run before the else plan.
ConElse_AfterFinal(h, g, ret) ==
    IF h[g].final_plan # NoGen
    THEN ConInFinal(h, g, send(h, h[g].final_plan, None), <<"return", ret>>)
    ELSE ConFinally(h, g, <<"return", ret>>)

\* Lines 1221-1223: the else block, plan having returned ret.
ConElse(h, g, ret) ==
    IF h[g].else_plan # NoGen
    THEN ConInElse(h, g, send(h, h[g].else_plan, None), <<"return", ret>>)
    ELSE ConFinally(h, g, <<"return", ret>>)

\* Lines 1216-1220 without the `raise` of line 1220: the exception is
\* dropped once except_plan(e) has returned.
ConInExcept_DropsException(h, g, r, pending) ==
    CASE r.tag = "yield" -> ConYield(r.h, g, "except", pending, r.msg)
      [] r.tag = "return" -> ConFinally(r.h, g, <<"return", None>>)
      [] OTHER -> ConFinally(r.h, g, <<"raise", r.val>>)

\* Line 1219 while it runs: r is what except_plan(e) just produced; the
\* `raise` of line 1220 follows its return.
ConInExcept(h, g, r, pending) ==
    CASE r.tag = "yield" -> ConYield(r.h, g, "except", pending, r.msg)
      [] r.tag = "return" -> ConFinally(r.h, g, pending)
      [] OTHER -> ConFinally(r.h, g, <<"raise", r.val>>)

\* Lines 1216-1220, e being the exception that is handled.
ConExcept(h, g, e) ==
    IF h[g].except_plan # NoGen
    THEN ConInExcept(h, g, send(Call(h, h[g].except_plan, e),
                                h[g].except_plan, None), <<"raise", e>>)
    ELSE ConFinally(h, g, <<"raise", e>>)

\* Lines 1213-1220: the handler of `except Exception as e`.
ConHandler(h, g, e) ==
    IF h[g].pause_for_debug
    THEN ConYield(h, g, "pause", <<"raise", e>>, h[g].pause_msg)
    ELSE ConExcept(h, g, e)

\* Lines 1208-1209: r is what `yield from plan` just produced.
ConInPlan(h, g, r) ==
    CASE r.tag = "yield" -> ConYield(r.h, g, "plan", r.h[g].pending, r.msg)
      [] r.tag = "return" -> ConElse(r.h, g, r.val)
      [] OTHER -> ConHandler(r.h, g, r.val)

ConSend(h, g, v) ==
    LET w == h[g] IN
    CASE w.at = "fresh" -> ConInPlan(h, g, send(h, w.plan, None))
      [] w.at = "plan" -> ConInPlan(h, g, send(h, w.plan, v))
      [] w.at = "pause" -> ConExcept(h, g, w.pending[2])
      [] w.at = "except" ->
           ConInExcept(h, g, send(h, w.except_plan, v), w.pending)
      [] w.at = "else" -> ConInElse(h, g, send(h, w.else_plan, v), w.pending)
      [] w.at = "final" -> ConInFinal(h, g, send(h, w.final_plan, v), w.pending)
      [] OTHER -> Returned(h, None)

ConThrow(h, g, ex) ==
    LET w == h[g] IN
    CASE w.at = "plan" -> ConInPlan(h, g, throw(h, w.plan, ex))
      [] w.at = "pause" -> ConFinally(h, g, <<"raise", ex>>)
      [] w.at = "except" ->
           ConInExcept(h, g, throw(h, w.except_plan, ex), w.pending)
      [] w.at = "else" -> ConInElse(h, g, throw(h, w.else_plan, ex), w.pending)
      [] w.at = "final" -> ConInFinal(h, g, throw(h, w.final_plan, ex), w.pending)
      [] OTHER -> Raised(Upd(h, g, [w EXCEPT !.at =
                         IF w.at = "fresh" THEN "done" ELSE w.at]), ex)

\* The end of close(): a generator that yields again instead of ending
\* makes close() raise RuntimeError; an exception other than GeneratorExit
\* leaves close(); otherwise close() returns.
ConCloseEnd(h, g, r) ==
    IF r.tag = "yield" THEN Raised(r.h, "RuntimeError")
    ELSE IF r.tag = "raise" THEN r
    ELSE Returned(Upd(r.h, g, [r.h[g] EXCEPT !.at = "closed"]), None)

\* close() while suspended in the `yield from` of the hook `sub`, outside
\* the try body: the hook is closed, then GeneratorExit is raised at the
\* `yield from`; `except GeneratorExit` (lines 1210-1212) does not cover
\* it, and the finally block runs with cleanup still True.
ConCloseInHook(h, g, r) ==
    IF r.tag = "raise"
    THEN ConCloseEnd(r.h, g, ConFinally(r.h, g, <<"raise", r.val>>))
    ELSE ConCloseEnd(r.h, g, ConFinally(r.h, g, <<"return", None>>))

\* close(): GeneratorExit raised at the suspension point.  Lines 1210-1212
\* switch cleanup off when it arrives in `yield from plan`.
ConClose(h, g) ==
    LET w == h[g] IN
    CASE w.at = "fresh" -> Returned(Upd(h, g, [w EXCEPT !.at = "closed"]), None)
      [] w.at = "plan" ->
           LET r == close(h, w.plan) IN
           IF r.tag = "raise"
           THEN ConCloseEnd(r.h, g, ConInPlan(r.h, g, r))
           ELSE Returned(Upd(r.h, g, [r.h[g] EXCEPT !.cleanup = FALSE,
                                                    !.at = "closed"]), None)
      [] w.at = "pause" ->
           ConCloseEnd(h, g, ConFinally(h, g, <<"return", None>>))
      [] w.at = "except" -> ConCloseInHook(h, g, close(h, w.except_plan))
      [] w.at = "else" -> ConCloseInHook(h, g, close(h, w.else_plan))
      [] w.at = "final" ->
           LET r == close(h, w.final_plan) IN
           IF r.tag = "raise" THEN ConLeave(r.h, g, <<"raise", r.val>>)
           ELSE Returned(Upd(r.h, g, [r.h[g] EXCEPT !.at = "closed"]), None)
      [] OTHER -> Returned(h, None)

\* ------------------------------------------------------------ msg_mutator

\* The generator object msg_mutator(plan, msg_proc) before its first
\* next().  msg_proc is a function from Msgs to Msgs, NoMsg being None: the
\* Msg is dropped.  ret is the local `ret`; at is "fresh", "yield"
\* (suspended at line 255), "done" or "closed".  shared says whether the
\* caller kept a reference to plan of its own: if not, plan is unreferenced
\* as soon as the frame of msg_mutator is gone, and the interpreter closes
\* it.
msg_mutator(plan, msg_proc, shared) ==
    [kind |-> "msg_mutator", plan |-> plan, msg_proc |-> msg_proc,
     shared |-> shared, ret |-> None, at |-> "fresh", id |-> 0]

\* The frame of msg_mutator is gone: the interpreter closes a suspended
\* plan nothing else refers to (what that close() raises is ignored).
MMRelease(h, g) ==
    IF h[g].shared THEN h ELSE [close(h, h[g].plan).h EXCEPT ![g] = h[g]]

\* Lines 249-254 with `ret` left as it is when the Msg is dropped.
RECURSIVE MMLoop_KeepsReply(_, _, _)
MMLoop_KeepsReply(h, g, r) ==
    CASE r.tag = "yield" ->
           IF r.h[g].msg_proc[r.msg] = NoMsg
           THEN MMLoop_KeepsReply(r.h, g, send(r.h, r.h[g].plan, r.h[g].ret))
           ELSE Yielded(Upd(r.h, g, [r.h[g] EXCEPT !.at = "yield"]),
                        r.h[g].msg_proc[r.msg])
      [] r.tag = "return" ->
           Returned(Upd(r.h, g, [r.h[g] EXCEPT !.at = "done"]), r.val)
      [] OTHER -> Raised(Upd(r.h, g, [r.h[g] EXCEPT !.at = "done"]), r.val)

\* Lines 246-257 from line 249 on: r is what plan.send(ret) just produced.
\* A dropped Msg sends None into the plan at once; StopIteration ends the
\* generator with the plan's value; any other exception leaves it.
RECURSIVE MMLoop(_, _, _)
MMLoop(h, g, r) ==
    CASE r.tag = "yield" ->
           IF r.h[g].msg_proc[r.msg] = NoMsg
           THEN MMLoop(r.h, g,
                       send(Upd(r.h, g, [r.h[g] EXCEPT !.ret = None]),
                            r.h[g].plan, None))
           ELSE Yielded(Upd(r.h, g, [r.h[g] EXCEPT !.at = "yield"]),
                        r.h[g].msg_proc[r.msg])
      [] r.tag = "return" ->
           Returned(Upd(r.h, g, [r.h[g] EXCEPT !.at = "done"]), r.val)
      [] OTHER -> Escapes(Upd(r.h, g, [r.h[g] EXCEPT !.at = "done"]), r.val)

\* Line 255 with the reply thrown away: the plan is resumed with None.
MMSend_DropsReply(h, g, v) ==
    IF h[g].at \in {"fresh", "yield"}
    THEN MMLoop(h, g, send(h, h[g].plan, None))
    ELSE Returned(h, None)

\* send(v): the first next() (ret = None, line 246) or the reply to `ret
\* = yield msg` (line 255), then plan.send(ret) (line 249).
MMSend(h, g, v) ==
    CASE h[g].at = "fresh" -> MMLoop(h, g, send(h, h[g].plan, None))
      [] h[g].at = "yield" ->
           MMLoop(h, g, send(Upd(h, g, [h[g] EXCEPT !.ret = v]),
                             h[g].plan, v))
      [] OTHER -> Returned(h, None)

\* throw(ex): the exception is raised at `ret = yield msg` (line 255); the
\* only handler is `except StopIteration` (line 256), so it leaves the
\* generator; the plan is not resumed.
MMThrow(h, g, ex) ==
    IF h[g].at \in {"fresh", "yield"}
    THEN Escapes(MMRelease(Upd(h, g, [h[g] EXCEPT !.at = "done"]), g), ex)
    ELSE Raised(h, ex)

\* close(): GeneratorExit at line 255 leaves the generator.
MMClose(h, g) ==
    IF h[g].at \in {"fresh", "yield"}
    THEN Returned(MMRelease(Upd(h, g, [h[g] EXCEPT !.at = "closed"]), g), None)
    ELSE Returned(h, None)

\* ----------------------------------------------------------------- pchain

\* The generator object pchain(*args) before its first next(); args are
\* the generators.  i is the position of `for p in args` (0 before the
\* loop), rets the deque of the values of `yield from p`, at is "fresh",
\* "run" (suspended inside `yield from p`), "done" or "closed".
pchain(args) ==
    [kind |-> "pchain", args |-> args, rets |-> <<>>, i |-> 0, at |-> "fresh",
     id |-> 0]

\* Lines 277-279 with rets.append left out of the loop: only the value of
\* the last generator is kept.
RECURSIVE PChLoop_KeepsLast(_, _)
PChLoop_KeepsLast(g, r) ==
    CASE r.tag = "yield" ->
           Yielded(Upd(r.h, g, [r.h[g] EXCEPT !.at = "run"]), r.msg)
      [] r.tag = "raise" ->
           Escapes(Upd(r.h, g, [r.h[g] EXCEPT !.at = "done"]), r.val)
      [] r.h[g].i = Len(r.h[g].args) ->
           Returned(Upd(r.h, g, [r.h[g] EXCEPT !.rets = <<r.val>>,
                                               !.at = "done"]),
                    <<r.val>>)
      [] OTHER ->
           PChLoop_KeepsLast(g, send(Upd(r.h, g, [r.h[g] EXCEPT
                                            !.rets = <<r.val>>, !.i = @ + 1]),
                                     r.h[g].args[r.h[g].i + 1], None))

\* Lines 277-279: r is what the call forwarded to args[i] by `yield from`
\* produced.  A Msg suspends pchain; an exception leaves it; a return
\* value is appended to rets and the loop goes on with next() on the
\* generator after, or returns tuple(rets) after the last one.
RECURSIVE PChLoop(_, _)
PChLoop(g, r) ==
    CASE r.tag = "yield" ->
           Yielded(Upd(r.h, g, [r.h[g] EXCEPT !.at = "run"]), r.msg)
      [] r.tag = "raise" ->
           Escapes(Upd(r.h, g, [r.h[g] EXCEPT !.at = "done"]), r.val)
      [] r.h[g].i = Len(r.h[g].args) ->
           Returned(Upd(r.h, g, [r.h[g] EXCEPT !.rets = Append(@, r.val),
                                               !.at = "done"]),
                    Append(r.h[g].rets, r.val))
      [] OTHER ->
           PChLoop(g, send(Upd(r.h, g, [r.h[g] EXCEPT
                                  !.rets = Append(@, r.val), !.i = @ + 1]),
                           r.h[g].args[r.h[g].i + 1], None))

\* Lines 276-279 from the first next(): nothing to run gives tuple().
PChStart(h, g) ==
    IF h[g].args = <<>>
    THEN Returned(Upd(h, g, [h[g] EXCEPT !.at = "done"]), <<>>)
    ELSE PChLoop(g, send(Upd(h, g, [h[g] EXCEPT !.i = 1]), h[g].args[1], None))

\* send(v): forwarded by `yield from` to the generator that is running.
PChSend(h, g, v) ==
    CASE h[g].at = "fresh" -> PChStart(h, g)
      [] h[g].at = "run" -> PChLoop(g, send(h, h[g].args[h[g].i], v))
      [] OTHER -> Returned(h, None)

\* throw(ex): forwarded by `yield from` to the generator that is running.
PChThrow(h, g, ex) ==
    CASE h[g].at = "run" -> PChLoop(g, throw(h, h[g].args[h[g].i], ex))
      [] h[g].at = "fresh" ->
           Raised(Upd(h, g, [h[g] EXCEPT !.at = "done"]), ex)
      [] OTHER -> Raised(h, ex)

\* What close() on pchain produces, r being what close() on the generator
\* that is running produced.
PChClosed(g, r) ==
    IF r.tag = "raise"
    THEN Raised(Upd(r.h, g, [r.h[g] EXCEPT !.at = "done"]), r.val)
    ELSE Returned(Upd(r.h, g, [r.h[g] EXCEPT !.at = "closed"]), None)

\* close(): `yield from` closes the generator that is running, and
\* GeneratorExit leaves pchain.
PChClose(h, g) ==
    CASE h[g].at = "run" -> PChClosed(g, close(h, h[g].args[h[g].i]))
      [] h[g].at = "fresh" ->
           Returned(Upd(h, g, [h[g] EXCEPT !.at = "closed"]), None)
      [] OTHER -> Returned(h, None)

\* ------------------------------------------------------------ run_wrapper

\* The generator object run_wrapper(plan, md=) before its first next().
\* open is the generator open_run(md), body the generator
\* contingency_wrapper(plan, except_plan=except_plan, else_plan=close_run);
\* rs_uid is the local of line 934; at is "fresh", "open" (suspended in
\* line 934), "body" (suspended in line 943), "done" or "closed".
run_wrapper(open, body) ==
    [kind |-> "run_wrapper", open |-> open, body |-> body, rs_uid |-> None,
     at |-> "fresh", id |-> 0]

\* Lines 943-946 returning what contingency_wrapper returned.
RWInBody_ReturnsBody(g, r) ==
    CASE r.tag = "yield" ->
           Yielded(Upd(r.h, g, [r.h[g] EXCEPT !.at = "body"]), r.msg)
      [] r.tag = "raise" ->
           Escapes(Upd(r.h, g, [r.h[g] EXCEPT !.at = "done"]), r.val)
      [] OTHER ->
           Returned(Upd(r.h, g, [r.h[g] EXCEPT !.at = "done"]), r.val)

\* Lines 943-946: r is what the call forwarded to contingency_wrapper
\* produced; when it returns, run_wrapper returns rs_uid.
RWInBody(g, r) ==
    CASE r.tag = "yield" ->
           Yielded(Upd(r.h, g, [r.h[g] EXCEPT !.at = "body"]), r.msg)
      [] r.tag = "raise" ->
           Escapes(Upd(r.h, g, [r.h[g] EXCEPT !.at = "done"]), r.val)
      [] OTHER ->
           Returned(Upd(r.h, g, [r.h[g] EXCEPT !.at = "done"]),
                    r.h[g].rs_uid)

\* Line 934: r is what the call forwarded to open_run(md) produced; its
\* return value is rs_uid, and line 943 starts the contingency_wrapper.
RWInOpen(g, r) ==
    CASE r.tag = "yield" ->
           Yielded(Upd(r.h, g, [r.h[g] EXCEPT !.at = "open"]), r.msg)
      [] r.tag = "raise" ->
           Escapes(Upd(r.h, g, [r.h[g] EXCEPT !.at = "done"]), r.val)
      [] OTHER ->
           RWInBody(g, send(Upd(r.h, g, [r.h[g] EXCEPT !.rs_uid = r.val]),
                            r.h[g].body, None))

RWSend(h, g, v) ==
    CASE h[g].at = "fresh" -> RWInOpen(g, send(h, h[g].open, None))
      [] h[g].at = "open" -> RWInOpen(g, send(h, h[g].open, v))
      [] h[g].at = "body" -> RWInBody(g, send(h, h[g].body, v))
      [] OTHER -> Returned(h, None)

RWThrow(h, g, ex) ==
    CASE h[g].at = "open" -> RWInOpen(g, throw(h, h[g].open, ex))
      [] h[g].at = "body" -> RWInBody(g, throw(h, h[g].body, ex))
      [] h[g].at = "fresh" ->
           Raised(Upd(h, g, [h[g] EXCEPT !.at = "done"]), ex)
      [] OTHER -> Raised(h, ex)

\* What close() on run_wrapper produces, r being what close() on the
\* generator it delegates to produced.
RWClosed(g, r) ==
    IF r.tag = "raise"
    THEN Raised(Upd(r.h, g, [r.h[g] EXCEPT !.at = "done"]), r.val)
    ELSE Returned(Upd(r.h, g, [r.h[g] EXCEPT !.at = "closed"]), None)

\* close(): `yield from` closes the generator that is running, and
\* GeneratorExit leaves run_wrapper.
RWClose(h, g) ==
    CASE h[g].at = "open" -> RWClosed(g, close(h, h[g].open))
      [] h[g].at = "body" -> RWClosed(g, close(h, h[g].body))
      [] h[g].at = "fresh" ->
           Returned(Upd(h, g, [h[g] EXCEPT !.at = "closed"]), None)
      [] OTHER -> Returned(h, None)

\* ---------------------------------------------------------- stage_wrapper

\* Msg('stage', d) is StageBase + d and Msg('unstage', d) UnstageBase + d,
\* d being a device, a number from 1.
StageBase == 110
UnstageBase == 120

\* reversed(devices).
reversed(devices) == [i \in 1..Len(devices) |-> devices[Len(devices) + 1 - i]]

\* stage_devices() of lines 1740-1742: for d in devices: yield Msg('stage', d).
stage_devices(devices) ==
    Script([i \in 1..Len(devices) |-> StageBase + devices[i]], -1,
           "propagate", "EStage", None)

\* Lines 1744-1746 without reversed(): unstage in the order of staging.
unstage_devices_InOrder(devices) ==
    Script([i \in 1..Len(devices) |-> UnstageBase + devices[i]], -1,
           "propagate", "EUnstage", None)

\* unstage_devices() of lines 1744-1746.
unstage_devices(devices) ==
    Script([i \in 1..Len(devices) |-> UnstageBase + reversed(devices)[i]], -1,
           "propagate", "EUnstage", None)

\* The generator object inner() of lines 1748-1750 before its first
\* next(): stage is the generator stage_devices(), plan the plan; at is
\* "fresh", "stage" (suspended in line 1749), "plan" (suspended in line
\* 1750), "done" or "closed".
inner(stage, plan) ==
    [kind |-> "inner", stage |-> stage, plan |-> plan, at |-> "fresh", id |-> 0]

\* Line 1750: r is what the call forwarded to plan produced; inner()
\* returns what plan returns.
InnerInPlan(g, r) ==
    CASE r.tag = "yield" ->
           Yielded(Upd(r.h, g, [r.h[g] EXCEPT !.at = "plan"]), r.msg)
      [] r.tag = "raise" ->
           Escapes(Upd(r.h, g, [r.h[g] EXCEPT !.at = "done"]), r.val)
      [] OTHER ->
           Returned(Upd(r.h, g, [r.h[g] EXCEPT !.at = "done"]), r.val)

\* Line 1749: r is what the call forwarded to stage_devices() produced;
\* when it returns, line 1750 starts the plan.
InnerInStage(g, r) ==
    CASE r.tag = "yield" ->
           Yielded(Upd(r.h, g, [r.h[g] EXCEPT !.at = "stage"]), r.msg)
      [] r.tag = "raise" ->
           Escapes(Upd(r.h, g, [r.h[g] EXCEPT !.at = "done"]), r.val)
      [] OTHER -> InnerInPlan(g, send(r.h, r.h[g].plan, None))

InnerSend(h, g, v) ==
    CASE h[g].at = "fresh" -> InnerInStage(g, send(h, h[g].stage, None))
      [] h[g].at = "stage" -> InnerInStage(g, send(h, h[g].stage, v))
      [] h[g].at = "plan" -> InnerInPlan(g, send(h, h[g].plan, v))
      [] OTHER -> Returned(h, None)

InnerThrow(h, g, ex) ==
    CASE h[g].at = "stage" -> InnerInStage(g, throw(h, h[g].stage, ex))
      [] h[g].at = "plan" -> InnerInPlan(g, throw(h, h[g].plan, ex))
      [] h[g].at = "fresh" ->
           Raised(Upd(h, g, [h[g] EXCEPT !.at = "done"]), ex)
      [] OTHER -> Raised(h, ex)

\* close(): `yield from` closes the generator that is running, and
\* GeneratorExit leaves inner() unless that close() raised.
InnerClose(h, g) ==
    CASE h[g].at = "stage" -> RWClosed(g, close(h, h[g].stage))
      [] h[g].at = "plan" -> RWClosed(g, close(h, h[g].plan))
      [] h[g].at = "fresh" ->
           Returned(Upd(h, g, [h[g] EXCEPT !.at = "closed"]), None)
      [] OTHER -> Returned(h, None)

\* --------------------------------------------- generator protocol, by kind

GenSend(h, g, v) ==
    CASE h[g].kind = "script" -> ScriptSend(h, g, v)
      [] h[g].kind = "finalize_wrapper" -> FinSend(h, g, v)
      [] h[g].kind = "contingency_wrapper" -> ConSend(h, g, v)
      [] h[g].kind = "msg_mutator" -> MMSend(h, g, v)
      [] h[g].kind = "pchain" -> PChSend(h, g, v)
      [] h[g].kind = "run_wrapper" -> RWSend(h, g, v)
      [] h[g].kind = "inner" -> InnerSend(h, g, v)
      [] h[g].kind = "plan_mutator" ->
           CASE h[g].pc = "fresh" -> PMRun(PMStart(h, g), g)
             [] h[g].pc = "yield" -> PMRun(PMResume(h, g, v), g)
             [] OTHER -> Returned(h, None)

GenThrow(h, g, ex) ==
    CASE h[g].kind = "script" -> ScriptThrow(h, g, ex)
      [] h[g].kind = "finalize_wrapper" -> FinThrow(h, g, ex)
      [] h[g].kind = "contingency_wrapper" -> ConThrow(h, g, ex)
      [] h[g].kind = "msg_mutator" -> MMThrow(h, g, ex)
      [] h[g].kind = "pchain" -> PChThrow(h, g, ex)
      [] h[g].kind = "run_wrapper" -> RWThrow(h, g, ex)
      [] h[g].kind = "inner" -> InnerThrow(h, g, ex)
      [] h[g].kind = "plan_mutator" ->
           CASE h[g].pc = "yield" -> PMRun(PMCatch(h, g, ex), g)
             [] h[g].pc = "fresh" ->
                  Raised(Upd(h, g, [h[g] EXCEPT !.pc = "raised", !.out = ex]), ex)
             [] OTHER -> Raised(h, ex)

\* What close() on the engine produces, h being the heap after line 211.
PMClosed(h, g) ==
    IF h[g].pc = "raised" THEN Raised(h, h[g].out) ELSE Returned(h, None)

GenClose(h, g) ==
    CASE h[g].kind = "script" -> ScriptClose(h, g)
      [] h[g].kind = "finalize_wrapper" -> FinClose(h, g)
      [] h[g].kind = "contingency_wrapper" -> ConClose(h, g)
      [] h[g].kind = "msg_mutator" -> MMClose(h, g)
      [] h[g].kind = "pchain" -> PChClose(h, g)
      [] h[g].kind = "run_wrapper" -> RWClose(h, g)
      [] h[g].kind = "inner" -> InnerClose(h, g)
      [] h[g].kind = "plan_mutator" ->
           CASE h[g].pc = "yield" -> PMClosed(PMClose(h, g), g)
             [] h[g].pc = "fresh" ->
                  Returned(Upd(h, g, [h[g] EXCEPT !.pc = "closed"]), None)
             [] OTHER -> Returned(h, None)

generator(h, g, method, arg) ==
    CASE method = "send" -> GenSend(h, g, arg)
      [] method = "throw" -> GenThrow(h, g, arg)
      [] OTHER -> GenClose(h, g)

\* ------------------------------------------------------------ the driver

\* The generator the driver holds is the first object of the heap.
Root == 1
\* In the specification of plan_mutator the plan is the second object.
PlanId == 2

\* Bounds of the model.
MaxPlanLen == 2
MaxTailLen == 2
MaxFaults == 1

\* The replies the driver may send and the fault it may throw.
Replies == {"r1", "r2"}
DriverFaults == {"EDrv"}

NumFaults == Cardinality({k \in 1..Len(answers) : answers[k][1] = "throw"})

\* The driver hands the answer to the reference run of the bare plan too.
RefStep(kind, v) ==
    IF ref.tag # "yield" THEN ref
    ELSE CASE kind = "send" -> send(ref.h, 1, v)
           [] kind = "throw" -> throw(ref.h, 1, v)
           [] OTHER -> [close(ref.h, 1) EXCEPT !.tag = "closed"]

\* --------------------------------------- scenarios of plan_mutator (Init)

\* The Msg instances: 1..MaxPlanLen are created by the plan, HeadMsgs by
\* the head of the rewritten Msg, TailMsg(1..) by its tail, NestedHeadMsg
\* and NestedTailMsg by the head and tail spliced in for HeadMsg1.
HeadMsg1 == 11
HeadMsg2 == 12
TailBase == 20
NestedHeadMsg == 31
NestedTailMsg == 41
TailMsgs(k) == [i \in 1..k |-> TailBase + i]
Msgs == (1..MaxPlanLen) \cup {HeadMsg1, HeadMsg2, NestedHeadMsg, NestedTailMsg}
            \cup {TailBase + i : i \in 1..MaxTailLen}

\* The streams a plan of at most MaxPlanLen Msgs can emit, up to renaming
\* of the instances: a Msg is a new instance (the next number) or an
\* earlier one emitted again.
IsCanonical(q) ==
    \A i \in 1..Len(q) : q[i] = 1 \/ \E j \in 1..(i - 1) : q[j] >= q[i] - 1
PlanShapes ==
    {q \in UNION {[1..k -> 1..MaxPlanLen] : k \in 0..MaxPlanLen} : IsCanonical(q)}
Elems(q) == {q[i] : i \in 1..Len(q)}

\* What a generator does with an exception thrown into it.
OnThrows == {"propagate", "convert", "handle"}

\* The templates msg_proc instantiates, and the plan.
HeadShapes(t) == {<<>>, <<t>>, <<HeadMsg1, t>>, <<HeadMsg1, HeadMsg2>>}
HeadGen(msgs, raiseAt, onThrow) == Script(msgs, raiseAt, onThrow, "EHead", "hv")
TailGen(k, raiseAt, onThrow) == Script(TailMsgs(k), raiseAt, onThrow, "ETail", "tv")
PlanGen(msgs, raiseAt, onThrow, ret) == Script(msgs, raiseAt, onThrow, "EPlan", ret)

\* The rewrite of HeadMsg1 (a Msg that only a head emits): into
\* pchain(single(NestedHeadMsg), single(HeadMsg1)) with a one-Msg tail.
NestedEntry ==
    [raises |-> FALSE,
     head |-> Script(<<NestedHeadMsg, HeadMsg1>>, -1, "propagate", "ENest", "nv"),
     tail |-> Script(<<NestedTailMsg>>, -1, "propagate", "ENTail", "ntv")]

\* msg_proc as a table: the target Msg t is rewritten as `entry` says,
\* HeadMsg1 as NestedEntry says when `nested`, every other Msg passes.
MsgProc(t, entry, nested) ==
    [m \in Msgs |-> IF m = t THEN entry
                    ELSE IF m = HeadMsg1 /\ nested THEN NestedEntry
                    ELSE PassThrough]

\* Family A: every shape of plan, head and tail; no generator raises or
\* handles a fault; msg_proc may raise.
EntriesA(t) ==
    {[raises |-> FALSE, head |-> hd, tail |-> tl] :
        hd \in {NoTemplate} \cup {HeadGen(q, -1, "propagate") : q \in HeadShapes(t)},
        tl \in {NoTemplate} \cup {TailGen(k, -1, "propagate") : k \in 0..MaxTailLen}}
    \cup {[raises |-> TRUE, head |-> NoTemplate, tail |-> NoTemplate]}

Targets(q) == IF q = <<>> THEN {1} ELSE Elems(q)
EmitsHeadMsg1(en) == en.head # NoTemplate /\ HeadMsg1 \in Elems(en.head.msgs)

ScenariosA ==
    UNION {
      {[plan |-> PlanGen(qt[1], -1, "propagate", ret),
        proc |-> MsgProc(qt[2], x[1], x[2]), pep479 |-> TRUE] :
          ret \in {"pv", "LAST"},
          x \in {y \in EntriesA(qt[2]) \X BOOLEAN : y[2] => EmitsHeadMsg1(y[1])}}
      : qt \in {y \in PlanShapes \X (1..MaxPlanLen) : y[2] \in Targets(y[1])}}

\* Family B: the longest plan with its first Msg rewritten into
\* pchain(single(HeadMsg1), single(original)) and a tail of at most one Msg;
\* the plan, the head and the tail each raise at some point or not, and
\* re-raise, convert or handle a fault thrown into them.
FullPlan == [i \in 1..MaxPlanLen |-> i]

ScenariosB ==
    {[plan |-> PlanGen(FullPlan, pr, po, "pv"),
      proc |-> MsgProc(1, [raises |-> FALSE,
                           head |-> HeadGen(<<HeadMsg1, 1>>, hr, ho),
                           tail |-> tl], FALSE),
      pep479 |-> pep] :
        pr \in {-1, 1}, po \in OnThrows, hr \in {-1, 1}, ho \in OnThrows,
        tl \in {NoTemplate, TailGen(1, -1, "propagate"), TailGen(1, -1, "handle"),
                TailGen(1, 1, "propagate")},
        pep \in BOOLEAN}

\* Family C: msg_proc passes every Msg; the plan raises at some point or
\* not, and re-raises, converts or handles a fault.
ScenariosC ==
    {[plan |-> PlanGen(FullPlan, pr, po, ret),
      proc |-> [m \in Msgs |-> PassThrough], pep479 |-> pep] :
        pr \in -1..MaxPlanLen, po \in OnThrows, ret \in {"pv", "LAST"},
        pep \in BOOLEAN}

\* Family D: a plan that carries on after a fault, with each of its Msgs
\* and the Msg of the second tail rewritten into a head and a tail of one
\* Msg each, or the Msg of the second tail into a head that yields nothing,
\* so that generators are made after others are gone.
HeadD(m) == Script(<<m>>, -1, "propagate", "EHead", "hv")
EmptyHeadD == Script(<<>>, -1, "propagate", "EHead", "hv")
TailD(m) == Script(<<m>>, -1, "propagate", "ETail", "tv")
EntryD(hd, tl) == [raises |-> FALSE, head |-> hd, tail |-> tl]

ScenariosD ==
    {[plan |-> PlanGen(FullPlan, -1, "handle", "pv"),
      proc |-> [m \in Msgs |->
                  CASE m = 1 -> EntryD(HeadD(HeadMsg1), TailD(TailBase + 1))
                    [] m = 2 -> e[1]
                    [] m = TailBase + 2 -> e[2]
                    [] OTHER -> PassThrough],
      pep479 |-> TRUE] :
        e \in {EntryD(NoTemplate, TailD(TailBase + 2)),
               EntryD(HeadD(HeadMsg2), TailD(TailBase + 2)),
               EntryD(HeadD(HeadMsg2), NoTemplate)}
              \X {PassThrough,
                  EntryD(EmptyHeadD, NoTemplate),
                  EntryD(HeadD(NestedHeadMsg), NoTemplate),
                  EntryD(HeadD(NestedHeadMsg), TailD(NestedTailMsg))}}

\* No call has been made yet.
NoResult == [tag |-> "fresh", msg |-> NoMsg, val |-> None]

Scenarios == ScenariosA \cup ScenariosB \cup ScenariosC \cup ScenariosD

Init ==
    \E sc \in Scenarios :
        /\ gens = <<At(plan_mutator(PlanId, sc.proc), Root),
                    At(sc.plan, PlanId)>>
        /\ emitted = <<>>
        /\ answers = <<>>
        /\ ref = [h |-> <<At(sc.plan, 1)>>, tag |-> "fresh", msg |-> NoMsg, val |-> None]
        /\ pep479 = sc.pep479
        /\ result = NoResult

\* --------------------------------------- the steps of plan_mutator (Next)

Engine == gens[Root]

\* The Msg handed to the driver when the engine reaches its yield.
Emission(h) ==
    LET e == h[Root]
        top == Last(e.plan_stack)
    IN [msg |-> e.msg, stack |-> e.plan_stack,
        idx |-> YieldCount(h, top)]

\* The driver's first next(): lines 98-110.
Start ==
    /\ Engine.pc = "fresh"
    /\ gens' = PMStart(gens, Root)
    /\ ref' = send(ref.h, 1, None)
    /\ UNCHANGED <<emitted, answers, pep479, result>>

\* One turn of the loop with a stashed exception: lines 114-129.
ThrowStep ==
    /\ Engine.pc = "top"
    /\ Engine.exception # NoExc
    /\ gens' = PMThrowStep(gens, Root)
    /\ UNCHANGED <<emitted, answers, ref, pep479, result>>

\* One turn of the loop with a saved result: lines 131-180.
SendStep ==
    /\ Engine.pc = "top"
    /\ Engine.exception = NoExc
    /\ gens' = PMSendStep(gens, Root)
    /\ UNCHANGED <<emitted, answers, ref, pep479, result>>

\* Lines 184-205: msg_proc, then the push of a head or the yield of msg.
\* The addresses of the generators msg_proc makes are the interpreter's
\* choice.
OfferStep ==
    /\ Engine.pc = "offer"
    /\ \E a \in Addresses(gens, Root) : gens' = PMOfferStep(gens, Root, a)
    /\ emitted' = IF gens'[Root].pc = "yield"
                  THEN Append(emitted, Emission(gens')) ELSE emitted
    /\ UNCHANGED <<answers, ref, pep479, result>>

\* The driver answers the emitted Msg with a reply: line 219.
DriverSend ==
    /\ Engine.pc = "yield"
    /\ \E v \in Replies :
         /\ gens' = PMResume(gens, Root, v)
         /\ answers' = Append(answers, <<"send", v>>)
         /\ ref' = RefStep("send", v)
    /\ UNCHANGED <<emitted, pep479, result>>

\* The driver answers with a fault: lines 212-217.
DriverThrow ==
    /\ Engine.pc = "yield"
    /\ NumFaults < MaxFaults
    /\ \E ex \in DriverFaults :
         /\ gens' = PMCatch(gens, Root, ex)
         /\ answers' = Append(answers, <<"throw", ex>>)
         /\ ref' = RefStep("throw", ex)
    /\ UNCHANGED <<emitted, pep479, result>>

\* The driver cancels: lines 206-211.
DriverClose ==
    /\ Engine.pc = "yield"
    /\ gens' = PMClose(gens, Root)
    /\ answers' = Append(answers, <<"close", None>>)
    /\ ref' = RefStep("close", None)
    /\ UNCHANGED <<emitted, pep479, result>>

Next ==
    \/ Start
    \/ ThrowStep
    \/ SendStep
    \/ OfferStep
    \/ DriverSend
    \/ DriverThrow
    \/ DriverClose

Spec == Init /\ [][Next]_vars

\* ------------------------------ plan_mutator under a driver that replies

\* The scenarios in which msg_proc rewrites Msgs of the plan only: every
\* Msg a spliced-in generator yields for the first time passes.
ScenariosProgress ==
    {sc \in Scenarios :
        \A m \in Msgs : sc.proc[m] # PassThrough => m \in 1..MaxPlanLen}

InitProgress ==
    \E sc \in ScenariosProgress :
        /\ gens = <<At(plan_mutator(PlanId, sc.proc), Root),
                    At(sc.plan, PlanId)>>
        /\ emitted = <<>>
        /\ answers = <<>>
        /\ ref = [h |-> <<At(sc.plan, 1)>>, tag |-> "fresh", msg |-> NoMsg, val |-> None]
        /\ pep479 = sc.pep479
        /\ result = NoResult

\* The engine runs and the driver answers every Msg with a reply.
NextProgress ==
    \/ Start
    \/ ThrowStep
    \/ SendStep
    \/ OfferStep
    \/ DriverSend

\* The body of plan_mutator is sequential code that keeps running until
\* its yield, and the driver answers every Msg: a step that can be taken
\* is taken.
SpecProgress == InitProgress /\ [][NextProgress]_vars /\ WF_vars(NextProgress)

\* ------------------------------ caching_repeater as the plan of plan_mutator

\* caching_repeater(n, plan) of lines 2175-2182, lst_plan being list(plan):
\* the Msg instances of lst_plan are yielded n times over, the replies are
\* dropped by the generator expression of line 2182, a fault thrown in
\* leaves the generator, and it returns None.
caching_repeater(n, lst_plan) ==
    Script([i \in 1..(n * Len(lst_plan)) |->
               lst_plan[((i - 1) % Len(lst_plan)) + 1]],
           -1, "propagate", "ERepeat", None)

\* Every caching_repeater of at most MaxPlanLen rounds over at most
\* MaxPlanLen Msgs, with one of the Msgs rewritten into any head and tail
\* of family A.
ScenariosRepeater ==
    UNION {
      {[plan |-> caching_repeater(n, qt[1]),
        proc |-> MsgProc(qt[2], en, FALSE)] :
          n \in 0..MaxPlanLen, en \in EntriesA(qt[2])}
      : qt \in {y \in PlanShapes \X (1..MaxPlanLen) : y[2] \in Targets(y[1])}}

InitRepeater ==
    \E sc \in ScenariosRepeater :
        /\ gens = <<At(plan_mutator(PlanId, sc.proc), Root),
                    At(sc.plan, PlanId)>>
        /\ emitted = <<>>
        /\ answers = <<>>
        /\ ref = [h |-> <<At(sc.plan, 1)>>, tag |-> "fresh", msg |-> NoMsg, val |-> None]
        /\ pep479 = TRUE
        /\ result = NoResult

SpecRepeater == InitRepeater /\ [][Next]_vars

\* ------------------------------ finalize_wrapper under the driver

\* In the specification of finalize_wrapper the wrapper is gens[Root], the
\* plan the second object and the final plan the third.
CleanupId == 3
Wrapper == gens[Root]
Cleanup == gens[CleanupId]

\* The Msgs of the final plan and the Msg of pause().
CleanupBase == 50
PauseMsg == 60
CleanupMsgs(k) == [i \in 1..k |-> CleanupBase + i]
FinalGen(k, raiseAt, onThrow) ==
    Script(CleanupMsgs(k), raiseAt, onThrow, "EFinal", "fv")

\* Every plan of at most MaxPlanLen Msgs and final plan of at most
\* MaxTailLen Msgs; each raises at some point or not, and re-raises,
\* converts or handles what is thrown into it.
ScenariosFinalize ==
    {[plan |-> PlanGen([i \in 1..n |-> i], pr, po, ret),
      final |-> FinalGen(k, fr, fo), pause_for_debug |-> pd] :
        n \in 0..MaxPlanLen, pr \in -1..MaxPlanLen, po \in OnThrows,
        ret \in {"pv", "LAST"},
        k \in 0..MaxTailLen, fr \in {-1, 1}, fo \in {"propagate", "handle"},
        pd \in BOOLEAN}

InitFinalize ==
    \E sc \in ScenariosFinalize :
        /\ gens = <<At(finalize_wrapper(PlanId, CleanupId, sc.pause_for_debug,
                                        PauseMsg), Root),
                    At(sc.plan, PlanId), At(sc.final, CleanupId)>>
        /\ emitted = <<>>
        /\ answers = <<>>
        /\ ref = [h |-> <<At(sc.plan, 1)>>, tag |-> "fresh", msg |-> NoMsg,
                  val |-> None]
        /\ pep479 = TRUE
        /\ result = NoResult

\* The driver has made a call on the wrapper and r is what it produced.
Called(r) ==
    /\ gens' = r.h
    /\ result' = [tag |-> r.tag, msg |-> r.msg, val |-> r.val]
    /\ emitted' = IF r.tag = "yield"
                  THEN Append(emitted, [msg |-> r.msg, stack |-> <<Root>>,
                                        idx |-> Len(emitted) + 1])
                  ELSE emitted
    /\ UNCHANGED pep479

\* The driver's first next().
FinalizeStart ==
    /\ result.tag = "fresh"
    /\ Called(send(gens, Root, None))
    /\ UNCHANGED <<answers, ref>>

\* The driver answers the emitted Msg with a reply.
FinalizeSend ==
    /\ result.tag = "yield"
    /\ \E v \in Replies :
         /\ Called(send(gens, Root, v))
         /\ answers' = Append(answers, <<"send", v>>)
    /\ UNCHANGED ref

\* The driver answers with a fault.
FinalizeThrow ==
    /\ result.tag = "yield"
    /\ NumFaults < MaxFaults
    /\ \E ex \in DriverFaults :
         /\ Called(throw(gens, Root, ex))
         /\ answers' = Append(answers, <<"throw", ex>>)
    /\ UNCHANGED ref

\* The driver cancels: close() returns ("closed") or raises.
FinalizeClose ==
    /\ result.tag = "yield"
    /\ Called([close(gens, Root) EXCEPT
                  !.tag = IF @ = "return" THEN "closed" ELSE @])
    /\ answers' = Append(answers, <<"close", None>>)
    /\ UNCHANGED ref

NextFinalize ==
    \/ FinalizeStart
    \/ FinalizeSend
    \/ FinalizeThrow
    \/ FinalizeClose

SpecFinalize == InitFinalize /\ [][NextFinalize]_vars

\* --------------- finalize_wrapper, alone or as the plan of plan_mutator

\* Where the finalize_wrapper is when plan_mutator is the generator the
\* driver holds.
WrappedId == 4

\* The finalize_wrapper is the generator the driver holds, or it is the
\* plan of a plan_mutator whose msg_proc leaves every Msg alone or puts a
\* head and a tail in the place of the plan's first Msg (the stack is then
\* two deep while the head or the tail runs).
StackedMsgs == Msgs \cup Elems(CleanupMsgs(MaxTailLen)) \cup {PauseMsg}
StackedProcs ==
    {[m \in StackedMsgs |-> PassThrough],
     [m \in StackedMsgs |-> IF m = 1 THEN EntryD(HeadD(HeadMsg1), TailD(TailBase + 1))
                     ELSE PassThrough]}

InitFinalizeStacked ==
    /\ \E sc \in ScenariosFinalize :
         \/ gens = <<At(finalize_wrapper(PlanId, CleanupId, sc.pause_for_debug,
                                         PauseMsg), Root),
                     At(sc.plan, PlanId), At(sc.final, CleanupId)>>
         \/ \E proc \in StackedProcs :
              gens = <<At(plan_mutator(WrappedId, proc), Root),
                       At(sc.plan, PlanId), At(sc.final, CleanupId),
                       At(finalize_wrapper(PlanId, CleanupId,
                                           sc.pause_for_debug, PauseMsg),
                          WrappedId)>>
    /\ emitted = <<>>
    /\ answers = <<>>
    /\ ref = [h |-> <<>>, tag |-> "fresh", msg |-> NoMsg, val |-> None]
    /\ pep479 = TRUE
    /\ result = NoResult

SpecFinalizeStacked == InitFinalizeStacked /\ [][NextFinalize]_vars

\* ------------------------------ contingency_wrapper under the driver

\* In the specification of contingency_wrapper the wrapper is gens[Root],
\* the plan the second object, and the generators final_plan(),
\* except_plan(e) and else_plan() make are the third, fourth and fifth.
ExceptId == 4
ElseId == 5
ExceptHook == gens[ExceptId]
ElseHook == gens[ElseId]

\* The Msgs of except_plan(e) are ExceptBase + 1.., those of else_plan()
\* ElseBase + 1...
ExceptBase == 70
ElseBase == 80

\* What a hook may be: not given, or a generator function whose generator
\* yields 0..MaxTailLen Msgs and returns, or yields one Msg and raises when
\* it is answered.
Hooks(base, exc, ret) ==
    {[given |-> FALSE, gen |-> Script(<<>>, -1, "propagate", exc, ret)]}
    \cup {[given |-> TRUE,
           gen |-> Script([i \in 1..k |-> base + i], -1, "propagate", exc, ret)] :
             k \in 0..MaxTailLen}
    \cup {[given |-> TRUE,
           gen |-> Script(<<base + 1>>, 1, "propagate", exc, ret)]}

\* Every plan of at most MaxPlanLen Msgs that returns, raises at some
\* point, and re-raises or handles what is thrown into it; every choice of
\* hooks, and an else_plan() that handles what is thrown into it;
\* pause_for_debug set or not.
ScenariosContingency ==
    {[plan |-> PlanGen([i \in 1..n |-> i], pr, po, "pv"),
      except |-> ex, else |-> el, final |-> fi, pause_for_debug |-> pd] :
        n \in 0..MaxPlanLen, pr \in {-1, 0, MaxPlanLen},
        po \in {"propagate", "handle"},
        ex \in Hooks(ExceptBase, "EExcept", "xv"),
        el \in Hooks(ElseBase, "EElse", "ev")
                 \cup {[given |-> TRUE,
                        gen |-> Script([i \in 1..MaxTailLen |-> ElseBase + i],
                                       -1, "handle", "EElse", "ev")]},
        fi \in Hooks(CleanupBase, "EFinal", "fv"),
        pd \in BOOLEAN}

InitContingency ==
    \E sc \in ScenariosContingency :
        /\ gens = <<At(contingency_wrapper(
                           PlanId,
                           IF sc.except.given THEN ExceptId ELSE NoGen,
                           IF sc.else.given THEN ElseId ELSE NoGen,
                           IF sc.final.given THEN CleanupId ELSE NoGen,
                           sc.pause_for_debug, PauseMsg), Root),
                    At(sc.plan, PlanId), At(sc.final.gen, CleanupId),
                    At(sc.except.gen, ExceptId), At(sc.else.gen, ElseId)>>
        /\ emitted = <<>>
        /\ answers = <<>>
        /\ ref = [h |-> <<>>, tag |-> "fresh", msg |-> NoMsg, val |-> None]
        /\ pep479 = TRUE
        /\ result = NoResult

SpecContingency == InitContingency /\ [][NextFinalize]_vars

\* ------------------------------------- msg_mutator under the driver

\* The Msg instance msg_proc returns in the place of m when it makes a new
\* one.
MutBase == 100

\* msg_proc for each Msg of the plan returns the Msg itself, a new Msg or
\* None; any other Msg it returns as it is.
MutantProcs ==
    {[m \in StackedMsgs |-> IF m \in 1..MaxPlanLen THEN f[m] ELSE m] :
        f \in {f \in [1..MaxPlanLen -> 0..(MutBase + MaxPlanLen)] :
                  \A m \in 1..MaxPlanLen : f[m] \in {m, MutBase + m, NoMsg}}}

\* The plan of msg_mutator is a leaf plan of at most MaxPlanLen Msgs, or
\* that plan inside finalize_wrapper with a final plan of MaxTailLen Msgs.
ScenariosMutator ==
    {[plan |-> PlanGen([i \in 1..n |-> i], pr, po, ret), proc |-> f,
      wrapped |-> w, shared |-> sh] :
        n \in 0..MaxPlanLen, pr \in {-1, MaxPlanLen},
        po \in {"propagate", "handle"}, ret \in {"pv", "LAST"},
        f \in MutantProcs, w \in BOOLEAN, sh \in BOOLEAN}

InitMutator ==
    /\ \E sc \in ScenariosMutator :
         IF sc.wrapped
         THEN gens = <<At(msg_mutator(WrappedId, sc.proc, sc.shared), Root),
                       At(sc.plan, PlanId),
                       At(FinalGen(MaxTailLen, -1, "propagate"), CleanupId),
                       At(finalize_wrapper(PlanId, CleanupId, FALSE, PauseMsg),
                          WrappedId)>>
         ELSE gens = <<At(msg_mutator(PlanId, sc.proc, sc.shared), Root),
                       At(sc.plan, PlanId)>>
    /\ emitted = <<>>
    /\ answers = <<>>
    /\ ref = [h |-> <<>>, tag |-> "fresh", msg |-> NoMsg, val |-> None]
    /\ pep479 = TRUE
    /\ result = NoResult

SpecMutator == InitMutator /\ [][NextFinalize]_vars

\* ------------------------------------------------ pchain under the driver

\* The j-th Msg of the i-th generator given to pchain, and the generator a
\* Msg belongs to.
ChainMsg(i, j) == 10 * i + j
ChainOwner(m) == m \div 10

\* The i-th generator given to pchain: it yields k Msgs, raises after the
\* last or not, re-raises or handles what is thrown into it, and returns a
\* value of its own or the last reply.
ChainGens(i, lens) ==
    {Script([j \in 1..k |-> ChainMsg(i, j)], pr, po, "EPlan", ret) :
        k \in lens, pr \in {-1, 0, 1}, po \in {"propagate", "handle"},
        ret \in {<<"pv", "hv", "tv">>[i], "LAST"}}

\* pchain of no generator, of one, two or three; the first yields up to
\* MaxPlanLen Msgs, the others at most one.
ScenariosChain ==
    {<<>>} \cup {<<a>> : a \in ChainGens(1, 0..MaxPlanLen)}
    \cup (ChainGens(1, 0..MaxPlanLen) \X ChainGens(2, 0..1))
    \cup (ChainGens(1, 0..MaxPlanLen) \X ChainGens(2, 0..1) \X ChainGens(3, 0..1))

InitChain ==
    /\ \E sc \in ScenariosChain :
         gens = <<At(pchain([i \in 1..Len(sc) |-> i + 1]), Root)>>
                  \o [i \in 1..Len(sc) |-> At(sc[i], i + 1)]
    /\ emitted = <<>>
    /\ answers = <<>>
    /\ ref = [h |-> <<>>, tag |-> "fresh", msg |-> NoMsg, val |-> None]
    /\ pep479 = TRUE
    /\ result = NoResult

SpecChain == InitChain /\ [][NextFinalize]_vars

\* ------------------------------------- one plan_mutator inside another

\* The driver holds the outer engine plan2, whose plan is the inner engine
\* plan1, the third object (monitor_during_wrapper itself only delegates to
\* plan2 with `yield from`).
InnerId == 3

\* The unmonitor Msgs are UnmonitorBase + 1.., the monitor Msgs TailMsgs.
UnmonitorBase == 30
LayeredMsgs ==
    Msgs \cup {OpenRun, CloseRun} \cup {UnmonitorBase + i : i \in 1..MaxTailLen}

\* insert_after_open for n signals: open_run is followed by the monitor
\* Msgs.
insert_after_open(n) ==
    [m \in LayeredMsgs |->
        IF m = OpenRun
        THEN [raises |-> FALSE, head |-> single_gen(m),
              tail |-> Script(TailMsgs(n), -1, "propagate", "ETail", None)]
        ELSE PassThrough]

\* insert_before_close for n signals: close_run is replaced by the
\* unmonitor Msgs and then itself.
insert_before_close(n) ==
    [m \in LayeredMsgs |->
        IF m = CloseRun
        THEN [raises |-> FALSE,
              head |-> Script([i \in 1..n |-> UnmonitorBase + i] \o <<m>>,
                              -1, "propagate", "EHead", None),
              tail |-> NoTemplate]
        ELSE PassThrough]

\* What either layer may do with its target Msg t: replace it by a head
\* that yields Msg a and then t again or not, with a tail of Msg b or
\* without.
LayerProcs(t, a, b) ==
    {[m \in LayeredMsgs |->
         IF m = t THEN [raises |-> FALSE,
                        head |-> Script(hd, -1, "propagate", "EHead", "hv"),
                        tail |-> tl]
         ELSE PassThrough] :
       hd \in {<<a>>, <<a, t>>},
       tl \in {NoTemplate, Script(<<b>>, -1, "propagate", "ETail", "tv")}}

\* monitor_during_wrapper over a plan open_run, 1.., close_run with up to
\* MaxTailLen signals; and two layers where the inner one rewrites the
\* plan's first Msg and the outer one a Msg of the plan, of the inner head
\* or of the inner tail.
ScenariosLayered ==
    {[plan |-> PlanGen(<<OpenRun>> \o [i \in 1..k |-> i] \o <<CloseRun>>,
                       -1, po, ret),
      inner |-> insert_after_open(n), outer |-> insert_before_close(n)] :
        k \in 0..MaxPlanLen, n \in 0..MaxTailLen,
        po \in {"propagate", "handle"}, ret \in {"pv", "LAST"}}
    \cup
    {[plan |-> PlanGen(FullPlan, -1, po, "pv"), inner |-> f, outer |-> g] :
        po \in {"propagate", "handle"},
        f \in LayerProcs(1, HeadMsg1, TailBase + 1),
        g \in UNION {LayerProcs(t, NestedHeadMsg, NestedTailMsg) :
                        t \in {1, MaxPlanLen, HeadMsg1, TailBase + 1}}}

InitLayered ==
    /\ \E sc \in ScenariosLayered :
         gens = <<At(plan_mutator(InnerId, sc.outer), Root),
                  At(sc.plan, PlanId),
                  At(plan_mutator(PlanId, sc.inner), InnerId)>>
    /\ emitted = <<>>
    /\ answers = <<>>
    /\ ref = [h |-> <<>>, tag |-> "fresh", msg |-> NoMsg, val |-> None]
    /\ pep479 = TRUE
    /\ result = NoResult

SpecLayered == InitLayered /\ [][NextFinalize]_vars

\* ------------------ finalize_wrapper around plan_mutator, and inside it

\* msg_proc leaves every Msg alone, or puts in the place of the plan's
\* first Msg a head that yields HeadMsg1 and then that Msg, and re-raises or
\* handles what is thrown into it, with a tail of one Msg or without.
ComposedProcs ==
    {[m \in StackedMsgs |-> PassThrough]}
    \cup {[m \in StackedMsgs |->
              IF m = 1 THEN [raises |-> FALSE,
                             head |-> HeadGen(<<HeadMsg1, 1>>, -1, ho),
                             tail |-> tl]
              ELSE PassThrough] :
            ho \in {"propagate", "handle"},
            tl \in {NoTemplate, TailGen(1, -1, "propagate")}}

\* A plan of one to MaxPlanLen Msgs that returns or raises after its first
\* reply, and re-raises or handles what is thrown into it; a final plan of
\* at most MaxTailLen Msgs that returns or raises after its first reply.
ScenariosComposed ==
    {[plan |-> PlanGen([i \in 1..n |-> i], pr, po, "pv"),
      final |-> FinalGen(k, fr, "propagate"), pause_for_debug |-> pd] :
        n \in 1..MaxPlanLen, pr \in {-1, 1}, po \in {"propagate", "handle"},
        k \in 0..MaxTailLen, fr \in {-1, 1}, pd \in BOOLEAN}

\* plan_mutator(finalize_wrapper(plan, cleanup), msg_proc), or
\* finalize_wrapper(plan_mutator(plan, msg_proc), cleanup) as in
\* lazily_stage_wrapper; the generator inside is the fourth object.
InitFinalizeComposed ==
    /\ \E sc \in ScenariosComposed, proc \in ComposedProcs :
         \/ gens = <<At(plan_mutator(WrappedId, proc), Root),
                     At(sc.plan, PlanId), At(sc.final, CleanupId),
                     At(finalize_wrapper(PlanId, CleanupId,
                                         sc.pause_for_debug, PauseMsg),
                        WrappedId)>>
         \/ gens = <<At(finalize_wrapper(WrappedId, CleanupId,
                                         sc.pause_for_debug, PauseMsg), Root),
                     At(sc.plan, PlanId), At(sc.final, CleanupId),
                     At(plan_mutator(PlanId, proc), WrappedId)>>
    /\ emitted = <<>>
    /\ answers = <<>>
    /\ ref = [h |-> <<>>, tag |-> "fresh", msg |-> NoMsg, val |-> None]
    /\ pep479 = TRUE
    /\ result = NoResult

SpecFinalizeComposed == InitFinalizeComposed /\ [][NextFinalize]_vars

\* ------------------------------------------- run_wrapper under the driver

\* The driver holds run_wrapper(plan); open_run(md) is the third object,
\* the contingency_wrapper of line 943 the sixth, except_plan and the
\* generator else_plan() makes are in the places of the hooks.
RunOpenId == 3
RunBodyId == 6

\* Every plan of at most MaxPlanLen Msgs that returns or raises at some
\* point, an ordinary fault or a RunEngineControlException, and re-raises,
\* replaces or handles what is thrown into it.
ScenariosRun ==
    {Script([i \in 1..n |-> i], pr, po, exc, "pv") :
        n \in 0..MaxPlanLen, pr \in -1..MaxPlanLen, po \in OnThrows,
        exc \in {"EPlan", "RunEngineControlException"}}

InitRun ==
    \E plan \in ScenariosRun :
        /\ gens = <<At(run_wrapper(RunOpenId, RunBodyId), Root),
                    At(plan, PlanId), At(open_run, RunOpenId),
                    At(ExceptPlanFunction, ExceptId),
                    At(close_run(None, None), ElseId),
                    At(contingency_wrapper(PlanId, ExceptId, ElseId, NoGen,
                                           FALSE, PauseMsg), RunBodyId)>>
        /\ emitted = <<>>
        /\ answers = <<>>
        /\ ref = [h |-> <<>>, tag |-> "fresh", msg |-> NoMsg, val |-> None]
        /\ pep479 = TRUE
        /\ result = NoResult

SpecRun == InitRun /\ [][NextFinalize]_vars

\* ----------------------------------------- stage_wrapper under the driver

\* The driver holds the finalize_wrapper of line 1752 (stage_wrapper itself
\* only delegates to it with `yield from`); unstage_devices() is its final
\* plan, stage_devices() the fourth object and inner() the fifth.
StageDevicesId == 4
StageInnerId == 5

\* The devices of line 1738, a list of at most MaxTailLen of two devices,
\* and every plan of at most MaxPlanLen Msgs that returns or raises at some
\* point and re-raises, replaces or handles what is thrown into it.
ScenariosStage ==
    {[devices |-> [i \in 1..k |-> d[i]],
      plan |-> PlanGen([i \in 1..n |-> i], pr, po, ret)] :
        k \in 0..MaxTailLen, d \in [1..MaxTailLen -> {1, 2}],
        n \in 0..MaxPlanLen, pr \in -1..MaxPlanLen, po \in OnThrows,
        ret \in {"pv", "LAST"}}

InitStage ==
    \E sc \in ScenariosStage :
        /\ gens = <<At(finalize_wrapper(StageInnerId, CleanupId, FALSE,
                                        PauseMsg), Root),
                    At(sc.plan, PlanId),
                    At(unstage_devices(sc.devices), CleanupId),
                    At(stage_devices(sc.devices), StageDevicesId),
                    At(inner(StageDevicesId, PlanId), StageInnerId)>>
        /\ emitted = <<>>
        /\ answers = <<>>
        /\ ref = [h |-> <<>>, tag |-> "fresh", msg |-> NoMsg, val |-> None]
        /\ pep479 = TRUE
        /\ result = NoResult

SpecStage == InitStage /\ [][NextFinalize]_vars

\* ------------------------------------------------------------------ claims

ThePlan == gens[PlanId]
Suspended == Engine.pc = "yield"
Ended == Engine.pc \in {"returned", "raised", "closed"}

\* msg_proc returns (None, None) for every Msg.
IdentityProc == \A m \in Msgs : Engine.msg_proc[m] = PassThrough

\* C1: with a msg_proc that returns (None, None) for every Msg, and as long
\* as the driver has thrown no fault, plan_mutator(plan, msg_proc) behaves
\* as the plan driven directly with the same answers: it is suspended on
\* the Msg the plan is suspended on, the plan has been resumed with exactly
\* the driver's answers in order, and it ends as the plan ends, with the
\* same completion value (or the same exception).
C1_IdentityLaw ==
    (IdentityProc /\ NumFaults = 0) =>
        /\ Suspended => /\ ref.tag = "yield"
                        /\ ref.msg = Engine.msg
                        /\ [k \in 1..Len(emitted) |-> emitted[k].msg]
                             = [k \in 1..Len(emitted) |-> ThePlan.msgs[k]]
        /\ (Suspended \/ Ended) =>
              /\ ThePlan.log = ref.h[1].log
              /\ ThePlan.log = [k \in 1..Len(ThePlan.log) |-> answers[k]]
        /\ Engine.pc = "returned" =>
              /\ ref.tag = "return"
              /\ Engine.out = ref.val
              /\ ThePlan.end = <<"return", Engine.out>>
        /\ Engine.pc = "raised" => ref.tag = "raise" /\ Engine.out = ref.val
        /\ Engine.pc = "closed" => ref.tag = "closed"

\* A run of an identity engine that forwarded two replies and completed
\* with the plan's value, which is the last reply.
C1_Witness ==
    /\ IdentityProc
    /\ NumFaults = 0
    /\ Engine.pc = "returned"
    /\ Len(answers) >= 2
    /\ ThePlan.ret = "LAST"
    /\ Engine.out = answers[Len(answers)][2]
    /\ Engine.out # answers[1][2]

\* ---- helpers of the claims about splicing

MsgsOf(seq) == [k \in 1..Len(seq) |-> seq[k].msg]
IsPrefix(a, b) == Len(a) <= Len(b) /\ a = SubSeq(b, 1, Len(a))
OnStack(p) == \E i \in 1..Len(Engine.plan_stack) : Engine.plan_stack[i] = p
Count(q, x) == Cardinality({i \in 1..Len(q) : q[i] = x})
FirstIndex(q, x) == CHOOSE i \in 1..Len(q) : q[i] = x /\ \A j \in 1..(i - 1) : q[j] # x
MaxOf(S) == CHOOSE x \in S : \A y \in S : y <= x
\* The emissions made while generator p was on the stack, and those made
\* by p itself (p on top).
EmissionsUnder(p) ==
    {k \in 1..Len(emitted) :
        \E i \in 1..Len(emitted[k].stack) : emitted[k].stack[i] = p}
EmissionsBy(p) == {k \in 1..Len(emitted) : Last(emitted[k].stack) = p}
Splices == {Engine.splices[i] : i \in 1..Len(Engine.splices)}
\* The Msgs msg_proc rewrites (does not pass through).
Rewritten == {m \in Msgs : Engine.msg_proc[m] # PassThrough}

\* msg_proc returns (head, None) for the one Msg t, with a head that never
\* raises, and (None, None) for every other Msg; the plan never raises and
\* emits t once.
HeadOnlyFor(t) ==
    /\ Rewritten = {t}
    /\ ~Engine.msg_proc[t].raises
    /\ Engine.msg_proc[t].head # NoTemplate
    /\ Engine.msg_proc[t].tail = NoTemplate
    /\ Engine.msg_proc[t].head.raiseAt = -1
    /\ ThePlan.raiseAt = -1
    /\ Count(ThePlan.msgs, t) = 1

\* The stream C2 predicts: the plan's Msgs with t replaced by the head's.
Spliced(t) ==
    SubSeq(ThePlan.msgs, 1, FirstIndex(ThePlan.msgs, t) - 1)
      \o Engine.msg_proc[t].head.msgs
      \o SubSeq(ThePlan.msgs, FirstIndex(ThePlan.msgs, t) + 1, Len(ThePlan.msgs))

\* C2: when msg_proc returns (head, None) for one target Msg of the plan and
\* (None, None) for all others, and the driver answers with replies, the
\* Msgs handed to the driver are, in order, the plan's Msgs before the
\* target, the head's Msgs, the plan's Msgs after the target: always a
\* prefix of that stream, the whole of it when the engine has returned; the
\* target is among them only if the head emits it.
C2_SpliceOrdering ==
    \A t \in 1..MaxPlanLen :
        (HeadOnlyFor(t) /\ NumFaults = 0) =>
            /\ IsPrefix(MsgsOf(emitted), Spliced(t))
            /\ Engine.pc = "returned" => MsgsOf(emitted) = Spliced(t)
            /\ (\E k \in 1..Len(emitted) : emitted[k].msg = t)
                  => t \in Elems(Engine.msg_proc[t].head.msgs)

\* The plan <<1, 2>> with its second Msg replaced by a head of two other
\* Msgs, run to the end: 1, HeadMsg1, HeadMsg2 went out and 2 did not.
C2_Witness ==
    /\ HeadOnlyFor(2)
    /\ NumFaults = 0
    /\ Engine.pc = "returned"
    /\ Len(ThePlan.msgs) >= 2
    /\ MsgsOf(emitted) = <<1, HeadMsg1, HeadMsg2>> \o SubSeq(ThePlan.msgs, 3, Len(ThePlan.msgs))

\* C3: for every Msg replaced by a head without a tail: while the head is on
\* the stack the generator that yielded the Msg is not resumed; the replies
\* to the Msgs the head itself emitted go to the head; and when the
\* generator that yielded the Msg is resumed with a reply for it (after at
\* least one emission made on behalf of the head), that reply is the
\* driver's answer to the last of those emissions, not the value the head
\* returned.
C3_HeadReplyRouting ==
    \A sp \in Splices :
        sp.tail = NoGen =>
            /\ OnStack(sp.head) => Len(gens[sp.em].log) = sp.idx - 1
            /\ \A k \in EmissionsBy(sp.head) :
                  /\ Len(gens[sp.head].log) >= emitted[k].idx
                        => gens[sp.head].log[emitted[k].idx] = answers[k]
                  /\ (k < Len(emitted) \/ Ended)
                        => (answers[k][1] = "close"
                              \/ Len(gens[sp.head].log) >= emitted[k].idx)
            /\ ( /\ Len(gens[sp.em].log) >= sp.idx
                 /\ gens[sp.em].log[sp.idx][1] = "send"
                 /\ EmissionsUnder(sp.head) # {} )
                  => gens[sp.em].log[sp.idx] = answers[MaxOf(EmissionsUnder(sp.head))]

\* C4: for every Msg replaced by a head with a tail, the head not having
\* ended with an exception: the generator that yielded the Msg is not
\* resumed while the head or the tail is on the stack; every emission made
\* on behalf of the tail comes after every emission made on behalf of the
\* head and before the next Msg of the generator that yielded the Msg; and
\* when that generator is resumed with a reply for the Msg, the tail has
\* run to its end and the reply is the driver's answer to the last
\* emission made on behalf of the head, whatever the tail was answered and
\* returned.
C4_TailTransparency ==
    \A sp \in Splices :
        ( /\ sp.tail # NoGen
          /\ Engine.msg_proc[sp.msg].head # NoTemplate
          /\ gens[sp.head].end # <<>> => gens[sp.head].end[1] = "return" ) =>
            /\ (OnStack(sp.head) \/ OnStack(sp.tail))
                  => Len(gens[sp.em].log) = sp.idx - 1
            /\ \A j \in EmissionsUnder(sp.head), k \in EmissionsUnder(sp.tail) : j < k
            /\ \A k \in EmissionsBy(sp.em) :
                  emitted[k].idx > sp.idx
                     => \A j \in EmissionsUnder(sp.head) \cup EmissionsUnder(sp.tail) : j < k
            /\ ( /\ Len(gens[sp.em].log) >= sp.idx
                 /\ gens[sp.em].log[sp.idx][1] = "send"
                 /\ EmissionsUnder(sp.head) # {} )
                  => /\ gens[sp.em].log[sp.idx] = answers[MaxOf(EmissionsUnder(sp.head))]
                     /\ gens[sp.tail].end = <<"return", gens[sp.tail].ret>>
                     /\ gens[sp.tail].pc = Len(gens[sp.tail].msgs)

\* The Msgs of a sequence are pairwise different.
NoDuplicates(q) == \A i, j \in 1..Len(q) : q[i] = q[j] => i = j

\* C5: msg_proc is called at most once for each Msg instance, so a Msg is
\* rewritten at most once however often and at whatever depth it is
\* emitted; every Msg in msgs_seen was handed to msg_proc; and msgs_seen
\* only grows.
C5_AtMostOnceRewrite ==
    /\ [](/\ NoDuplicates(Engine.offered)
          /\ Engine.msgs_seen \subseteq Elems(Engine.offered)
          /\ \A sp, sq \in Splices : sp.msg = sq.msg => sp = sq)
    /\ [][Engine.msgs_seen \subseteq Engine'.msgs_seen]_vars

\* The rewritten Msg 1 is emitted again by the generator two levels above
\* the plan and handed to the driver, having been given to msg_proc once.
C5_Witness ==
    /\ 1 \in Rewritten
    /\ Suspended
    /\ Engine.msg = 1
    /\ Len(Engine.plan_stack) >= 2
    /\ Last(Engine.plan_stack) # PlanId
    /\ Count(Engine.offered, 1) = 1
    /\ emitted[Len(emitted)].msg = 1

\* C6: when the driver closes the engine at a Msg, every generator on the
\* plan stack is closed, once, no further Msg is emitted, and the engine
\* ends with the GeneratorExit (it is closed: it neither returns nor raises
\* another exception).
C6_CancellationClosesStack ==
    (answers # <<>> /\ Last(answers)[1] = "close") =>
        /\ Engine.pc = "closed"
        /\ \A i \in 1..Len(Engine.plan_stack) :
              gens[Engine.plan_stack[i]].st = "closed"
        /\ Elems(Engine.close_log) = Elems(Engine.plan_stack)
        /\ Len(Engine.close_log) = Len(Engine.plan_stack)
        /\ Len(emitted) = Len(answers)

\* The engine was closed at a Msg with three generators on its stack.
C6_Witness ==
    /\ answers # <<>>
    /\ Last(answers)[1] = "close"
    /\ Len(answers) >= 2
    /\ Len(Engine.plan_stack) >= 3
    /\ \A i \in 1..Len(Engine.plan_stack) :
          gens[Engine.plan_stack[i]].st = "closed"

\* C7: a fault thrown by the driver goes into the generator on top of the
\* stack at that Msg; a step that throws the stashed exception touches the
\* top generator only, pops at most that one generator, stashes what it
\* raised for the one beneath, and emits nothing; and when the fault has
\* left the plan itself, the engine raises what the plan raised.
C7_FaultUnwinding ==
    /\ [](/\ \A k \in 1..Len(answers) :
                (answers[k][1] = "throw"
                    /\ Len(gens[Last(emitted[k].stack)].log) >= emitted[k].idx)
                  => gens[Last(emitted[k].stack)].log[emitted[k].idx] = answers[k]
          /\ (Engine.pc = "raised" /\ ThePlan.end # <<>> /\ ThePlan.end[1] = "raise")
                  => Engine.out = ThePlan.end[2])
    /\ [][(Engine.pc = "top" /\ Engine.exception # NoExc) =>
            LET top == Last(Engine.plan_stack) IN
            /\ \A p \in 1..Len(gens) : p \notin {Root, top} => gens'[p] = gens[p]
            /\ Len(gens') = Len(gens)
            /\ emitted' = emitted
            /\ gens[top].st = "susp"
                  => gens'[top].log = Append(gens[top].log, <<"throw", Engine.exception>>)
            /\ \/ /\ gens'[top].st = "susp"
                  /\ Engine'.plan_stack = Engine.plan_stack
                  /\ Engine'.exception = NoExc
               \/ /\ gens'[top].st = "done"
                  /\ Engine'.plan_stack = Front(Engine.plan_stack)
                  /\ Engine'.plan_stack # <<>> =>
                        /\ Engine'.pc = "top"
                        /\ Engine'.exception = IF gens'[top].end[1] = "raise"
                                               THEN gens'[top].end[2]
                                               ELSE StopIteration(gens'[top].end[2])
         ]_vars

\* The driver threw EDrv at a Msg of the head; the head raised EHead for it
\* and the plan EPlan for that, which is what the engine raised.
C7_Witness ==
    /\ Engine.pc = "raised"
    /\ Engine.out = "EPlan"
    /\ emitted # <<>>
    /\ Last(answers) = <<"throw", "EDrv">>
    /\ Len(emitted[Len(emitted)].stack) = 2
    /\ gens[Last(emitted[Len(emitted)].stack)].end = <<"raise", "EHead">>
    /\ Last(gens[Last(emitted[Len(emitted)].stack)].log) = <<"throw", "EDrv">>
    /\ Last(ThePlan.log) = <<"throw", "EHead">>
    /\ ThePlan.end = <<"raise", "EPlan">>

\* C8: for every Msg replaced by a head with a tail, when the head has
\* ended with an exception (raised when sent a reply, or raised or
\* re-raised when an exception was thrown into it), the tail never runs:
\* it has yielded nothing and no emission was made on its behalf; and the
\* generator that yielded the Msg is resumed with that exception, as soon
\* as the engine is next suspended or has ended.
C8_AbandonedTail ==
    \A sp \in Splices :
        (sp.tail # NoGen /\ gens[sp.head].end # <<>>
              /\ gens[sp.head].end[1] = "raise") =>
            /\ gens[sp.tail].pc = 0
            /\ gens[sp.tail].log = <<>>
            /\ EmissionsUnder(sp.tail) = {}
            /\ Len(gens[sp.em].log) >= sp.idx
                  => gens[sp.em].log[sp.idx] = <<"throw", gens[sp.head].end[2]>>
            /\ (Suspended \/ Ended) => Len(gens[sp.em].log) >= sp.idx

\* ---- finalize_wrapper

\* The Msgs the plan and the final plan have yielded so far.
PlanEmitted == SubSeq(ThePlan.msgs, 1, ThePlan.pc)
CleanupEmitted == SubSeq(Cleanup.msgs, 1, Cleanup.pc)
\* The plan ended with an exception; the final plan ran to its end.
PlanFailed == ThePlan.end # <<>> /\ ThePlan.end[1] = "raise"
CleanupCompleted == Cleanup.end # <<>> /\ Cleanup.end[1] = "return"
\* The driver answered the Msg of pause() with a fault or a cancellation.
PauseRefused ==
    \E k \in 1..Len(answers) : emitted[k].msg = PauseMsg /\ answers[k][1] # "send"

\* C9 as stated: when the plan has ended with an exception and the final
\* plan has run to its end, the Msgs of the final plan were emitted after
\* the last Msg of the plan and finalize_wrapper raised the exception of
\* the plan.
C9_AsStated ==
    (PlanFailed /\ CleanupCompleted) =>
        /\ \E mid \in {<<>>, <<PauseMsg>>} :
              MsgsOf(emitted) = PlanEmitted \o mid \o Cleanup.msgs
        /\ result.tag = "raise"
        /\ result.val = ThePlan.end[2]

\* C9, amended: the same, unless pause_for_debug is set and the driver
\* answered the Msg of pause() with a fault or a cancellation.
C9_FinalizeOnFault ==
    (PlanFailed /\ CleanupCompleted /\ ~PauseRefused) =>
        /\ \E mid \in {<<>>, <<PauseMsg>>} :
              MsgsOf(emitted) = PlanEmitted \o mid \o Cleanup.msgs
        /\ result.tag = "raise"
        /\ result.val = ThePlan.end[2]

\* The plan re-raised the fault the driver threw at its second Msg, the
\* final plan emitted its two Msgs and was answered, and the wrapper raised
\* the driver's fault.
C9_Witness ==
    /\ ThePlan.end = <<"raise", "EDrv">>
    /\ Len(PlanEmitted) = 2
    /\ Cleanup.end = <<"return", "fv">>
    /\ Len(Cleanup.msgs) = 2
    /\ ~Wrapper.pause_for_debug
    /\ result.tag = "raise"
    /\ result.val = "EDrv"
    /\ MsgsOf(emitted) = PlanEmitted \o Cleanup.msgs

\* C10: when the plan has returned v, the Msgs emitted are those of the
\* plan followed by those the final plan has yielded so far (it was started
\* in the same call); and when the final plan has run to its end, all its
\* Msgs have been emitted and finalize_wrapper has returned v, not the
\* value the final plan returned.
C10_FinalizeOnCompletion ==
    (ThePlan.end # <<>> /\ ThePlan.end[1] = "return") =>
        /\ MsgsOf(emitted) = PlanEmitted \o CleanupEmitted
        /\ Cleanup.st # "fresh"
        /\ CleanupCompleted =>
              /\ CleanupEmitted = Cleanup.msgs
              /\ result.tag = "return"
              /\ result.val = ThePlan.end[2]

\* The plan returned the reply to its last Msg, r1; the final plan emitted
\* two Msgs, was answered r2 and returned "fv"; the wrapper returned r1.
C10_Witness ==
    /\ ThePlan.end = <<"return", "r1">>
    /\ Len(PlanEmitted) >= 1
    /\ Cleanup.end = <<"return", "fv">>
    /\ Cleanup.log = <<<<"send", "r2">>, <<"send", "r2">>>>
    /\ result.tag = "return"
    /\ result.val = "r1"
    /\ NumFaults = 0

\* ---- finalize_wrapper and cancellation

\* The finalize_wrapper of the scenario, held by the driver or by the
\* plan_mutator the driver holds.
TheWrapper ==
    IF gens[Root].kind = "finalize_wrapper" THEN gens[Root] ELSE gens[WrappedId]
\* The driver's last answer was a cancellation.
Cancelled == answers # <<>> /\ Last(answers)[1] = "close"

\* C11: when the driver cancels (close()) while the plan inside
\* finalize_wrapper is suspended at a Msg, the final plan is never started
\* and emits nothing, nothing is emitted after the cancellation, and
\* close() ends by the GeneratorExit leaving the wrapper (no other
\* exception); the same when the finalize_wrapper is the plan of a
\* plan_mutator that is cancelled, whatever is on top of it on the stack.
C11_FinalizeOnCancellation ==
    (Cancelled /\ ThePlan.st = "closed") =>
        /\ Cleanup.st = "fresh"
        /\ Cleanup.pc = 0
        /\ \A k \in 1..Len(emitted) : emitted[k].msg \notin Elems(Cleanup.msgs)
        /\ Len(emitted) = Len(answers)
        /\ ~TheWrapper.cleanup
        /\ TheWrapper.at = "closed"
        /\ result.tag = "closed"

\* A plan_mutator was cancelled while the tail it spliced in was suspended
\* on top of the finalize_wrapper, whose final plan has Msgs to emit.
C11_Witness ==
    /\ Cancelled
    /\ gens[Root].kind = "plan_mutator"
    /\ Len(gens[Root].plan_stack) = 2
    /\ Last(emitted).msg = TailBase + 1
    /\ ThePlan.st = "closed"
    /\ Len(Cleanup.msgs) = 2
    /\ result.tag = "closed"

\* ---- contingency_wrapper

\* The Msgs a hook contributes when it is given and runs to its end.
HookMsgs(hook, id) == IF hook # NoGen THEN gens[id].msgs ELSE <<>>
\* The hook was not given, or the generator it made has returned.
HookCompleted(hook, id) ==
    hook # NoGen => (gens[id].end # <<>> /\ gens[id].end[1] = "return")
\* The hook was not given, or the generator it made has not ended with an
\* exception and was not closed (it is unstarted, suspended or returned).
HookUnbroken(hook, id) ==
    hook # NoGen => /\ gens[id].st # "closed"
                    /\ gens[id].end = <<>> \/ gens[id].end[1] = "return"
\* The driver's last call on the wrapper has ended the wrapper.
CallEnded == result.tag \in {"return", "raise", "closed"}

C13_ContingencyOnCompletion ==
    ( /\ ThePlan.end # <<>> /\ ThePlan.end[1] = "return"
      /\ HookUnbroken(Wrapper.else_plan, ElseId)
      /\ HookUnbroken(Wrapper.final_plan, CleanupId)
      /\ CallEnded ) =>
        /\ HookCompleted(Wrapper.else_plan, ElseId)
        /\ HookCompleted(Wrapper.final_plan, CleanupId)
        /\ MsgsOf(emitted) = PlanEmitted
                             \o HookMsgs(Wrapper.else_plan, ElseId)
                             \o HookMsgs(Wrapper.final_plan, CleanupId)
        /\ ExceptHook.st = "fresh"
        /\ result.tag = "return"
        /\ result.val = ThePlan.end[2]

\* The plan emitted a Msg and returned "pv"; else_plan() and final_plan()
\* each emitted two Msgs and returned; except_plan was given; the wrapper
\* returned "pv".
C13_Witness ==
    /\ ThePlan.end = <<"return", "pv">>
    /\ Len(PlanEmitted) >= 1
    /\ Wrapper.else_plan # NoGen /\ ElseHook.end = <<"return", "ev">>
    /\ Len(ElseHook.msgs) = 2
    /\ Wrapper.final_plan # NoGen /\ Cleanup.end = <<"return", "fv">>
    /\ Len(Cleanup.msgs) = 2
    /\ Wrapper.except_plan # NoGen
    /\ result.tag = "return"
    /\ result.val = "pv"

\* C14: when the driver cancels (close()) the contingency_wrapper at a Msg
\* of the plan, of except_plan(e) or of else_plan(), nothing is emitted
\* after the cancellation, no hook that had not been started is started
\* (final_plan() in particular), and close() ends by the GeneratorExit
\* leaving the wrapper (no other exception).
C14_ContingencyOnCancellation ==
    (Cancelled /\ Last(emitted).msg \notin Elems(Cleanup.msgs) \cup {PauseMsg}) =>
        /\ Len(emitted) = Len(answers)
        /\ Cleanup.st = "fresh"
        /\ Last(emitted).msg \in Elems(ThePlan.msgs) =>
              ExceptHook.st = "fresh" /\ ElseHook.st = "fresh"
        /\ result.tag = "closed"

\* ---- msg_mutator

\* The msg_proc of the msg_mutator the driver holds, and whether its plan
\* is the leaf plan itself.
Mutate == gens[Root].msg_proc
Unwrapped == gens[Root].plan = PlanId
\* Every answer of the driver so far was a reply.
OnlyReplies == \A k \in 1..Len(answers) : answers[k][1] = "send"
\* The indices of the Msgs the plan has yielded that msg_proc keeps.
Kept == {i \in 1..ThePlan.pc : Mutate[ThePlan.msgs[i]] # NoMsg}
\* The k-th element of a finite set of numbers, in increasing order.
Nth(S, k) == CHOOSE x \in S : Cardinality({y \in S : y <= x}) = k

\* C15: with a msg_proc that never returns None and a driver that only
\* replies, the i-th Msg emitted is msg_proc of the i-th Msg of the plan
\* (the plan's own Msgs when msg_proc is the identity), the plan has been
\* resumed with exactly the driver's replies in order, and msg_mutator ends
\* as the plan ends: returns the value the plan returned, raises what it
\* raised.
C15_MutatorIdentityLaw ==
    ( /\ Unwrapped
      /\ OnlyReplies
      /\ \A i \in 1..Len(ThePlan.msgs) : Mutate[ThePlan.msgs[i]] # NoMsg ) =>
        /\ MsgsOf(emitted) = [i \in 1..ThePlan.pc |-> Mutate[ThePlan.msgs[i]]]
        /\ ThePlan.log = answers
        /\ result.tag = "yield" <=> ThePlan.st = "susp"
        /\ ThePlan.end # <<>> =>
              result.tag = ThePlan.end[1] /\ result.val = ThePlan.end[2]

\* msg_proc made a new Msg for the first Msg and kept the second; the plan
\* was answered r1 and r2 and returned its last reply; so did msg_mutator.
C15_Witness ==
    /\ Unwrapped
    /\ Len(ThePlan.msgs) = 2
    /\ Mutate[1] = MutBase + 1 /\ Mutate[2] = 2
    /\ answers = <<<<"send", "r1">>, <<"send", "r2">>>>
    /\ ThePlan.end = <<"return", "r2">>
    /\ result.tag = "return" /\ result.val = "r2"

\* C16: a Msg of the plan for which msg_proc returns None is never
\* emitted, the plan is resumed for it with None in the same call
\* (msg_mutator is never suspended on it), and carries on: the Msgs
\* emitted are msg_proc of the Msgs kept, the replies to them reach the
\* plan in order, and a plan whose last Msg is dropped has ended when the
\* call ends.
C16_MutatorDropping ==
    (Unwrapped /\ OnlyReplies) =>
        /\ \A i \in 1..ThePlan.pc :
              Mutate[ThePlan.msgs[i]] = NoMsg =>
                 /\ \A k \in 1..Len(emitted) : emitted[k].msg # ThePlan.msgs[i]
                 /\ Len(ThePlan.log) >= i
                 /\ ThePlan.log[i] = <<"send", None>>
                 /\ i = Len(ThePlan.msgs) => ThePlan.st = "done"
        /\ Len(emitted) = Cardinality(Kept)
        /\ \A k \in 1..Len(emitted) :
              /\ emitted[k].msg = Mutate[ThePlan.msgs[Nth(Kept, k)]]
              /\ k <= Len(answers) => ThePlan.log[Nth(Kept, k)] = answers[k]

\* The first Msg was kept and answered r1, the second, the plan's last,
\* was dropped: the plan was resumed with None and returned it.
C16_Witness ==
    /\ Unwrapped
    /\ Mutate[1] = 1 /\ Mutate[2] = NoMsg
    /\ ThePlan.log = <<<<"send", "r1">>, <<"send", None>>>>
    /\ ThePlan.end = <<"return", None>>
    /\ MsgsOf(emitted) = <<1>>
    /\ result.tag = "return" /\ result.val = None

\* C17: when the driver answers a Msg emitted by msg_mutator with a fault,
\* the generator that yielded the Msg (the plan, or the final plan of the
\* finalize_wrapper that is the plan) is resumed with that fault.
C17_MutatorForwardsFaults ==
    (answers # <<>> /\ Last(answers)[1] = "throw") =>
        LET m == emitted[Len(answers)].msg
            em == IF m \in Elems(CleanupMsgs(MaxTailLen)) THEN CleanupId
                  ELSE PlanId
        IN /\ gens[em].log # <<>>
           /\ Last(gens[em].log) = <<"throw", Last(answers)[2]>>

\* ---- plan_mutator: a fault handled by completing

\* The leaf plans on the heap, and those that handled the fault thrown
\* into them by returning (the throw is the last thing they were resumed
\* with, and they ended by `return`).
Leaves == {p \in 1..Len(gens) : gens[p].kind = "script"}
CompletedOnThrow ==
    {p \in Leaves : /\ gens[p].end # <<>> /\ gens[p].end[1] = "return"
                    /\ gens[p].log # <<>> /\ Last(gens[p].log)[1] = "throw"}

\* C18: when the generator on top of plan_stack handles the fault thrown
\* into it by returning, the engine takes it as a normal completion: the
\* generator is popped, no exception is pending because of it (its
\* StopIteration is not stashed and is never thrown into the generator
\* beneath), and when it was the plan itself the engine returns the plan's
\* return value.
C18_FaultHandledByCompleting ==
    \A p \in CompletedOnThrow :
        /\ ~OnStack(p)
        /\ ~IsStopIteration(Engine.exception)
        /\ \A q \in Leaves : \A k \in 1..Len(gens[q].log) :
              gens[q].log[k][1] = "throw" => ~IsStopIteration(gens[q].log[k][2])
        /\ p = PlanId => Engine.pc = "returned" /\ Engine.out = gens[p].end[2]

\* ---- plan_mutator: a tail without a head

ProcRaised ==
    /\ Engine.offered # <<>>
    /\ Engine.msg_proc[Last(Engine.offered)].raises

\* C20: when msg_proc raises for the Msg it is offered, the engine ends at
\* once with that exception: the Msg is not emitted, nothing is emitted
\* after the offer (every emission has its answer), the exception is not
\* stashed and not thrown into any generator, and the stack is left as it
\* was, the generator that yielded the Msg still suspended.
C20_RewriteFunctionFault ==
    ProcRaised =>
        /\ Engine.pc = "raised"
        /\ Engine.out = "EProc"
        /\ Engine.exception = NoExc
        /\ \A k \in 1..Len(emitted) : emitted[k].msg # Last(Engine.offered)
        /\ Len(emitted) = Len(answers)
        /\ \A q \in Leaves : \A k \in 1..Len(gens[q].log) :
              gens[q].log[k] # <<"throw", "EProc">>
        /\ Engine.plan_stack # <<>>
        /\ gens[Last(Engine.plan_stack)].st = "susp"

\* msg_proc raised for the second Msg of the plan, after the first was
\* emitted and answered.
C20_Witness ==
    /\ ProcRaised
    /\ Last(Engine.offered) = 2
    /\ MsgsOf(emitted) = <<1>>
    /\ Len(answers) = 1
    /\ Engine.pc = "raised"
    /\ Engine.out = "EProc"

\* ---- plan_mutator: the completion value

\* C21: plan_mutator completes only when its stack is empty, and it
\* completes with the completion value of the outermost plan (the plan has
\* returned, and what the engine returns is what the plan returned),
\* whatever the spliced heads and tails returned.  Before PEP 479 the
\* StopIteration of a head that ended on a fault (lines 116-127) passes
\* through the plan and ends the engine with the head's value.
C21_EngineCompletionValue ==
    Engine.pc = "returned" =>
        /\ Engine.plan_stack = <<>>
        /\ ThePlan.end # <<>>
        /\ ThePlan.end[1] = "return"
        /\ Engine.out = ThePlan.end[2]

\* ---- plan_mutator: rewriting of spliced-in Msgs

\* The splices made for a Msg that a head or a tail yielded (not the plan).
NestedSplices == {sp \in Splices : sp.em # PlanId}

\* C22: every Msg handed to the driver was handed to msg_proc first,
\* whichever generator yielded it; and for every Msg of a head or a tail
\* that msg_proc rewrote, the stream is the depth-first expansion: what the
\* generator that yielded the Msg emitted before it comes first, then
\* everything emitted on behalf of the nested head, then everything
\* emitted on behalf of the nested tail, then what that generator emits
\* next.
C22_ReentrantRewriting ==
    /\ \A k \in 1..Len(emitted) : emitted[k].msg \in Elems(Engine.offered)
    /\ \A sp \in NestedSplices :
          /\ \A j \in EmissionsBy(sp.em), k \in EmissionsUnder(sp.head) :
                emitted[j].idx < sp.idx => j < k
          /\ \A j \in EmissionsUnder(sp.head), k \in EmissionsUnder(sp.tail) : j < k
          /\ \A k \in EmissionsBy(sp.em) :
                emitted[k].idx > sp.idx
                   => \A j \in EmissionsUnder(sp.head) \cup EmissionsUnder(sp.tail) :
                         j < k

\* The Msg HeadMsg1 of a head was rewritten into a head and a tail; both
\* ran, the outer head went on after them and the engine returned.
C22_Witness ==
    /\ Engine.pc = "returned"
    /\ \E sp \in NestedSplices :
         /\ sp.msg = HeadMsg1
         /\ sp.tail # NoGen
         /\ \E k \in EmissionsBy(sp.head) : emitted[k].msg = NestedHeadMsg
         /\ \E k \in EmissionsBy(sp.tail) : emitted[k].msg = NestedTailMsg
         /\ \E k \in EmissionsBy(sp.em) : emitted[k].idx > sp.idx
         /\ NestedHeadMsg \in Elems(Engine.offered)

\* ---- pchain

Chain == gens[Root]
ChainLen == Len(Chain.args)
Comp(i) == gens[Chain.args[i]]
EmissionsOf(i) == {k \in 1..Len(emitted) : ChainOwner(emitted[k].msg) = i}
\* The emissions of the i-th generator that were answered with a reply or a
\* fault.
Resumptions(i) ==
    {k \in EmissionsOf(i) : k <= Len(answers) /\ answers[k][1] # "close"}

\* C23: pchain(c1, ..., cn) emits the Msgs of c1, then those of c2, and so
\* on: the stream is made of the Msgs each generator has yielded so far, in
\* the order of the generators (the Msgs are numbered in that order), and a
\* generator is started only when the one before it has returned.  Each
\* reply or fault goes to the generator whose Msg it answers.  pchain
\* returns the tuple of the generators' return values in order.  When a
\* generator ends with an exception, pchain ends with that exception and
\* the generators after it are never started.
C23_Pchain ==
    /\ \A k, l \in 1..Len(emitted) : k < l => emitted[k].msg < emitted[l].msg
    /\ \A i \in 1..ChainLen :
          /\ {emitted[k].msg : k \in EmissionsOf(i)}
                = {Comp(i).msgs[j] : j \in 1..Comp(i).pc}
          /\ (i > 1 /\ Comp(i).st # "fresh")
                => Comp(i - 1).end # <<>> /\ Comp(i - 1).end[1] = "return"
          /\ result.tag # "fresh" =>
                /\ Len(Comp(i).log) = Cardinality(Resumptions(i))
                /\ \A n \in 1..Len(Comp(i).log) :
                      Comp(i).log[n] = answers[Nth(Resumptions(i), n)]
          /\ (Comp(i).end # <<>> /\ Comp(i).end[1] = "raise") =>
                /\ result.tag = "raise"
                /\ result.val = Comp(i).end[2]
                /\ \A j \in (i + 1)..ChainLen : Comp(j).st = "fresh"
    /\ result.tag = "return" =>
          /\ \A i \in 1..ChainLen :
                Comp(i).end # <<>> /\ Comp(i).end[1] = "return"
          /\ result.val = [i \in 1..ChainLen |-> Comp(i).end[2]]

\* Three generators ran in turn, the second took over a fault thrown at its
\* Msg and returned, and pchain returned the three values in order.
C23_Witness ==
    /\ ChainLen = 3
    /\ result.tag = "return"
    /\ result.val = <<"pv", "hv", "r2">>
    /\ Len(emitted) = 4
    /\ answers[3] = <<"throw", "EDrv">>
    /\ Comp(2).log = <<answers[3]>>

\* ---- one plan_mutator inside another

Inner == gens[InnerId]
InnerSplices == {Inner.splices[i] : i \in 1..Len(Inner.splices)}
\* The Msgs a generator has yielded so far (none for no generator).
YieldedBy(p) ==
    IF p = NoGen THEN {} ELSE {gens[p].msgs[j] : j \in 1..gens[p].pc}
\* The Msgs the inner engine has emitted: those its msg_proc passed, and
\* those one of its heads or tails yielded again after it had seen them.
InnerEmitted ==
    {m \in Elems(Inner.offered) :
        \/ Inner.msg_proc[m] = PassThrough
        \/ \E sp \in InnerSplices : m \in YieldedBy(sp.head) \cup YieldedBy(sp.tail)}
\* The Msgs yielded by the generators the outer engine itself spliced in.
OuterSpliced ==
    UNION {YieldedBy(sp.head) \cup YieldedBy(sp.tail) : sp \in Splices}
\* The scenario is monitor_during_wrapper; the stream it is to produce.
IsMonitor == OpenRun \in Elems(ThePlan.msgs)
MonitorExpected ==
    <<OpenRun>> \o Inner.msg_proc[OpenRun].tail.msgs
        \o SubSeq(ThePlan.msgs, 2, Len(ThePlan.msgs) - 1)
        \o Engine.msg_proc[CloseRun].head.msgs

\* C24 as stated: the outer msg_proc is offered only Msgs that the inner
\* engine emitted.
C24_AsStated == Elems(Engine.offered) \subseteq InnerEmitted

\* C24: the outer msg_proc is offered only Msgs the inner engine emitted and
\* Msgs yielded by the generators the outer engine itself spliced in; every
\* Msg the inner engine emitted, spliced-in ones included, is offered to
\* it; a Msg the inner msg_proc replaced and no inner generator yielded
\* again is offered to it only if an outer generator yields it.  For
\* monitor_during_wrapper over open_run, ..., close_run answered with
\* replies the stream is open_run, the monitor Msgs, the plan's Msgs, the
\* unmonitor Msgs, close_run (always a prefix, the whole when the wrapper
\* has returned), and the plan is resumed at open_run and at close_run with
\* the driver's replies to them.
C24_Layering ==
    /\ Elems(Engine.offered) \subseteq InnerEmitted \cup OuterSpliced
    /\ InnerEmitted \subseteq Elems(Engine.offered)
    /\ \A sp \in InnerSplices :
          (sp.msg \notin InnerEmitted /\ sp.msg \in Elems(Engine.offered))
             => sp.msg \in OuterSpliced
    /\ (IsMonitor /\ NumFaults = 0) =>
          /\ IsPrefix(MsgsOf(emitted), MonitorExpected)
          /\ result.tag = "return" =>
                /\ MsgsOf(emitted) = MonitorExpected
                /\ ThePlan.log[1] = answers[1]
                /\ ThePlan.log[Len(ThePlan.log)] = answers[Len(answers)]
          /\ Len(ThePlan.log) >= 1 => ThePlan.log[1] = answers[1]

\* monitor_during_wrapper with two signals over a plan of four Msgs has
\* returned: the stream is complete, and the outer msg_proc was offered an
\* unmonitor Msg and a monitor Msg.
C24_Witness ==
    /\ IsMonitor
    /\ NumFaults = 0
    /\ result.tag = "return"
    /\ MsgsOf(emitted) = <<OpenRun, TailBase + 1, TailBase + 2, 1, 2,
                            UnmonitorBase + 1, UnmonitorBase + 2, CloseRun>>
    /\ {TailBase + 1, UnmonitorBase + 1} \subseteq Elems(Engine.offered)
    /\ answers[1] # answers[Len(answers)]

\* ---- plan_mutator: one answer for each Msg

\* The generator that yielded the Msg emitted last, and which of its yields
\* that was.
Emitter == Last(emitted[Len(emitted)].stack)
EmitterIdx == emitted[Len(emitted)].idx
\* The driver has replied to the Msg emitted last and the generator that
\* yielded it has not been resumed since.
ReplyPending ==
    /\ answers # <<>>
    /\ Len(answers) = Len(emitted)
    /\ Last(answers)[1] = "send"
    /\ Len(gens[Emitter].log) = EmitterIdx - 1

\* C25: the engine hands the driver one Msg at a time and does nothing
\* while it is suspended except take one answer (the Msgs emitted and the
\* answers alternate); and the first generator resumed after a reply is
\* the one that yielded the Msg, which was on top of the stack then: it is
\* resumed once, with that reply, while no other generator is resumed.
C25_StrictRequestResponse ==
    /\ [](Len(emitted) = Len(answers) + (IF Suspended THEN 1 ELSE 0))
    /\ [][Suspended => answers' # answers /\ Front(answers') = answers]_vars
    /\ [][ReplyPending =>
            /\ gens'[Emitter].log = Append(gens[Emitter].log, Last(answers))
            /\ \A q \in Leaves \ {Emitter} : gens'[q].log = gens[q].log]_vars

\* A reply to the second Msg of a head (two generators on the stack) has
\* reached the head, and the plan beneath has not been resumed.
C25_Witness ==
    /\ Len(answers) >= 2
    /\ Len(answers) = Len(emitted)
    /\ Last(answers)[1] = "send"
    /\ Len(emitted[Len(emitted)].stack) = 2
    /\ EmitterIdx = 2
    /\ Len(gens[Emitter].log) = 2
    /\ gens[Emitter].log[2] = Last(answers)
    /\ gens[Emitter].log[1] # Last(answers)
    /\ ThePlan.log = <<>>

\* ---- plan_mutator: what is sent after a head has returned

\* The generator on top of the stack, and whether it is a head that
\* msg_proc made (and not a tail).
Top == Last(Engine.plan_stack)
TopIsHead ==
    /\ \E sp \in Splices : sp.head = Top
    /\ \A sp \in Splices : sp.tail # Top
\* This step sends the saved result into a head, which returns.
HeadReturns ==
    /\ Engine.pc = "top"
    /\ Engine.exception = NoExc
    /\ Engine.plan_stack # <<>>
    /\ TopIsHead
    /\ gens[Top].end = <<>>
    /\ gens'[Top].end # <<>>
    /\ gens'[Top].end[1] = "return"
\* After that step: the reply kept for the generator beneath the head: the
\* one saved for the head's tail when the tail took the head's place on the
\* stack, the one on top of result_stack otherwise.
KeptReply ==
    IF Len(Engine'.plan_stack) = Len(Engine.plan_stack)
    THEN Get(Engine'.tail_result_cache, gens'[Last(Engine'.plan_stack)].id)
    ELSE Last(Engine'.result_stack)

HandlesFault ==
    /\ Engine.pc = "top"
    /\ Engine.exception # NoExc
    /\ Engine.plan_stack # <<>>
    /\ gens'[Top].st = "susp"
    /\ gens'[Top].pc = gens[Top].pc + 1
\* The Msg in hand at line 184 was yielded by a generator that handled a
\* fault.
HandledInHand ==
    /\ Engine.pc = "offer"
    /\ gens[Top].log # <<>>
    /\ Last(gens[Top].log)[1] = "throw"
\* The stack when the last Msg was emitted.
StackAtEmission == IF emitted = <<>> THEN <<>> ELSE Last(emitted).stack

\* C28: when the generator on top of the stack handles the stashed
\* exception by yielding a Msg, the exception is cleared, the generator
\* stays on top, and every generator that was on the stack at the last
\* emission and is no longer there has ended; the Msg is then treated as
\* any other at line 184: emitted as it is when it was seen before,
\* otherwise recorded and handed to msg_proc, and emitted at once only if
\* msg_proc gives no head and no tail for it (a head is pushed instead).
C28_HandledFaultOffered ==
    /\ [][HandlesFault =>
            /\ Engine'.pc = "offer"
            /\ Engine'.exception = NoExc
            /\ Engine'.msg = gens'[Top].msgs[gens'[Top].pc]
            /\ Last(gens'[Top].log) = <<"throw", Engine.exception>>
            /\ Engine'.plan_stack = Engine.plan_stack
            /\ \A p \in Elems(StackAtEmission) \ Elems(Engine.plan_stack) :
                  gens[p].end # <<>>]_vars
    /\ [][HandledInHand =>
            IF Engine.msg \in Engine.msgs_seen
            THEN /\ Engine'.pc = "yield"
                 /\ Engine'.offered = Engine.offered
                 /\ MsgsOf(emitted') = Append(MsgsOf(emitted), Engine.msg)
            ELSE /\ Engine'.offered = Append(Engine.offered, Engine.msg)
                 /\ Engine'.msgs_seen = Engine.msgs_seen \cup {Engine.msg}
                 /\ IF Engine.msg_proc[Engine.msg] = PassThrough
                    THEN /\ Engine'.pc = "yield"
                         /\ MsgsOf(emitted') = Append(MsgsOf(emitted), Engine.msg)
                    ELSE /\ emitted' = emitted
                         /\ Engine.msg_proc[Engine.msg].raises
                               => Engine'.pc = "raised"
                         /\ ~Engine.msg_proc[Engine.msg].raises
                               => /\ Engine'.pc = "top"
                                  /\ Len(Engine'.plan_stack)
                                        = Len(Engine.plan_stack) + 1]_vars

\* The driver threw a fault at the Msg of a head; the head is gone, the
\* plan beneath handled the fault by yielding a Msg not seen before, which
\* msg_proc replaces by a head.
C28_Witness ==
    /\ HandledInHand
    /\ Top = PlanId
    /\ Len(StackAtEmission) = 2
    /\ Engine.exception = NoExc
    /\ Engine.msg \notin Engine.msgs_seen
    /\ Engine.msg_proc[Engine.msg].head # NoTemplate

\* ---- finalize_wrapper composed with plan_mutator

\* The driver answered every Msg of the final plan with a reply.
CleanupAnswered ==
    \A k \in 1..Len(answers) :
        emitted[k].msg \in Elems(Cleanup.msgs) => answers[k][1] = "send"
NoCancellation == \A k \in 1..Len(answers) : answers[k][1] # "close"

\* C29: for plan_mutator(finalize_wrapper(plan, cleanup), msg_proc) and for
\* finalize_wrapper(plan_mutator(plan, msg_proc), cleanup), msg_proc
\* rewriting Msgs of the plan: when the plan has ended, by returning or with
\* an exception (its own, or a fault the driver threw at a Msg of the plan
\* or of a head), and the composition has returned or raised, the driver
\* not having cancelled, then the final plan, if it does not raise by itself
\* and its Msgs are answered with replies, has run to its end and its Msgs
\* are the last Msgs emitted, all of them and in order.
C29_CleanupThroughEngine ==
    ( /\ ThePlan.end # <<>>
      /\ result.tag \in {"return", "raise"}
      /\ NoCancellation
      /\ CleanupAnswered
      /\ Cleanup.raiseAt = -1 ) =>
        /\ CleanupCompleted
        /\ Len(emitted) >= Len(Cleanup.msgs)
        /\ SubSeq(MsgsOf(emitted), Len(emitted) - Len(Cleanup.msgs) + 1,
                  Len(emitted)) = Cleanup.msgs

\* The driver threw a fault at the Msg of a head spliced in by the engine
\* around or inside the finalize_wrapper; the head and the plan re-raised
\* it, the two Msgs of the final plan were emitted and the composition
\* raised the fault.
C29_Witness ==
    /\ Len(answers) >= 1
    /\ answers[1] = <<"throw", "EDrv">>
    /\ emitted[1].msg = HeadMsg1
    /\ ThePlan.end = <<"raise", "EDrv">>
    /\ MsgsOf(emitted) = <<HeadMsg1>> \o Cleanup.msgs
    /\ Len(Cleanup.msgs) = 2
    /\ result = [tag |-> "raise", msg |-> NoMsg, val |-> "EDrv"]

\* ---- run_wrapper

\* The places of the close_run Msgs among the Msgs emitted.
CloseRuns ==
    {k \in 1..Len(emitted) :
        emitted[k].msg \in CloseRun..(CloseRun + Len(FaultTexts))}

\* The close_run Msg that reports how the plan ended.
CloseRunFor(end) ==
    IF end[1] = "return" \/ IsControl(end[2]) THEN CloseRun
    ELSE CloseRun + str(end[2])

\* The close_run Msg was answered with a reply and run_wrapper is over.
ClosedRunOver ==
    /\ result.tag \in {"return", "raise"}
    /\ ThePlan.end # <<>>
    /\ Last(answers)[1] = "send"

\* C30: run_wrapper emits open_run first and returns the driver's reply to
\* it; no close_run is emitted before the plan has ended, so none when
\* the wrapper is cancelled while the plan runs; once the plan has
\* returned or raised, exactly one close_run has been emitted, right after
\* the plan's last Msg, with exit_status 'fail' and the fault's text as
\* reason when the plan raised a fault that is not a
\* RunEngineControlException and with the default fields otherwise; and
\* when that close_run is answered with a reply, the plan's fault is
\* re-raised, or rs_uid returned.
C30_RunBracketing ==
    /\ emitted # <<>> => emitted[1].msg = OpenRun
    /\ result.tag = "return" => answers[1] = <<"send", result.val>>
    /\ ThePlan.end = <<>> => CloseRuns = {}
    /\ ThePlan.end # <<>> =>
          /\ CloseRuns = {ThePlan.pc + 2}
          /\ Len(emitted) = ThePlan.pc + 2
          /\ MsgsOf(emitted) = <<OpenRun>> \o SubSeq(ThePlan.msgs, 1, ThePlan.pc)
                                   \o <<CloseRunFor(ThePlan.end)>>
    /\ ClosedRunOver =>
          IF ThePlan.end[1] = "raise"
          THEN result.tag = "raise" /\ result.val = ThePlan.end[2]
          ELSE result.tag = "return"

\* The driver threw a fault at the plan's first Msg, the plan replaced it
\* by a RunEngineControlException, close_run came with the default fields
\* and, answered, was followed by the exception.
C30_Witness ==
    /\ answers = <<<<"send", "r1">>, <<"throw", "EDrv">>, <<"send", "r2">>>>
    /\ ThePlan.end = <<"raise", "RunEngineControlException">>
    /\ MsgsOf(emitted) = <<OpenRun, 1, CloseRun>>
    /\ result = [tag |-> "raise", msg |-> NoMsg,
                 val |-> "RunEngineControlException"]

\* ---- stage_wrapper

\* The devices of line 1738, read off the Msgs of stage_devices(), and the
\* stage and unstage Msgs expected for them.
Devices == [i \in 1..Len(gens[StageDevicesId].msgs) |-> gens[StageDevicesId].msgs[i] - StageBase]
StageExpected == [i \in 1..Len(Devices) |-> StageBase + Devices[i]]
UnstageExpected == [i \in 1..Len(Devices) |-> UnstageBase + Devices[Len(Devices) + 1 - i]]

\* The driver answered every Msg emitted since the plan ended with a reply.
UnstageAnswered ==
    \A k \in 1..Len(answers) :
        k > Len(Devices) + ThePlan.pc => answers[k][1] = "send"

\* C31: once the plan has been started, stage_wrapper has emitted one
\* stage Msg per device, in the order of devices, before any Msg of the
\* plan; once the plan has returned or raised, the Msgs emitted after the
\* plan's last Msg are unstage Msgs, one per device in the reverse order,
\* all of them when the driver answered them with replies and
\* stage_wrapper is over; stage_wrapper then returns what the plan returned
\* or raises what the plan raised, and it returns only what the plan
\* returned.
C31_StagePairing ==
    /\ ThePlan.st # "fresh" =>
          /\ Len(emitted) >= Len(Devices)
          /\ SubSeq(MsgsOf(emitted), 1, Len(Devices)) = StageExpected
    /\ ThePlan.end # <<>> =>
          \E j \in 0..Len(Devices) :
              MsgsOf(emitted) = StageExpected \o PlanEmitted
                                   \o SubSeq(UnstageExpected, 1, j)
    /\ (ThePlan.end # <<>> /\ UnstageAnswered
          /\ result.tag \in {"return", "raise"}) =>
          /\ MsgsOf(emitted) = StageExpected \o PlanEmitted \o UnstageExpected
          /\ result.tag = ThePlan.end[1]
          /\ result.val = ThePlan.end[2]
    /\ result.tag = "return" => ThePlan.end = <<"return", result.val>>

\* Two different devices were staged, the plan raised after its first Msg,
\* the devices were unstaged in the reverse order and the plan's
\* exception was raised.
C31_Witness ==
    /\ Devices = <<1, 2>>
    /\ ThePlan.end = <<"raise", "EPlan">>
    /\ MsgsOf(emitted) = <<StageBase + 1, StageBase + 2, 1, UnstageBase + 2, UnstageBase + 1>>
    /\ result = [tag |-> "raise", msg |-> NoMsg, val |-> "EPlan"]

\* ---- the engine's stack at a suspension

\* The generators whose count of yielded Msgs goes up in this step.
Advanced == {p \in 1..Len(gens) : YieldCount(gens', p) = YieldCount(gens, p) + 1}

\* This step is the driver throwing a fault in at the yield.
FaultArrives ==
    /\ Engine.pc = "yield"
    /\ Len(answers') = Len(answers) + 1
    /\ Last(answers')[1] = "throw"

\* C32: while plan_mutator is suspended at its yield, plan_stack is not
\* empty and the generator on top of it is suspended at the yield that
\* produced the Msg in hand: a step that takes a Msg from a generator
\* (lines 117, 133) advances the generator on top and no other, and the
\* stack is not touched between that step and the yield; so a fault thrown
\* in at the yield is always stashed for the generator on top (line 216)
\* and never leaves the engine through line 218.
C32_StackAtSuspension ==
    /\ [](Suspended =>
            /\ Engine.plan_stack # <<>>
            /\ gens[Top].st = "susp"
            /\ gens[Top].msgs[gens[Top].pc] = Engine.msg)
    /\ [][(Engine.pc = "top" /\ gens'[Root].pc = "offer") =>
            /\ gens'[Root].plan_stack # <<>>
            /\ Advanced = {Last(gens'[Root].plan_stack)}]_vars
    /\ [][(Engine.pc = "offer" /\ gens'[Root].pc = "yield") =>
            /\ gens'[Root].plan_stack = Engine.plan_stack
            /\ Advanced = {}]_vars
    /\ [][FaultArrives =>
            /\ gens'[Root].pc = "top"
            /\ gens'[Root].exception = Last(answers')[2]
            /\ gens'[Root].plan_stack = Engine.plan_stack]_vars

\* The driver threw a fault in while the engine was suspended on a Msg of
\* a head: the fault is stashed and two generators are stacked.
C32_Witness ==
    /\ Engine.pc = "top"
    /\ Engine.exception = "EDrv"
    /\ Len(Engine.plan_stack) = 2
    /\ answers # <<>>
    /\ Last(answers) = <<"throw", "EDrv">>
    /\ Len(answers) = Len(emitted)
    /\ Last(emitted).msg = HeadMsg1

\* ---- the engine's result_stack

\* The engine is inside its loop: started and not over.
Running == Engine.pc \in {"top", "offer", "yield"}
\* The engine is about to send the saved result into the generator on top.
AboutToSend == Engine.pc = "top" /\ Engine.exception = NoExc
\* An exception is stashed for the generator on top.
FaultPending == Engine.pc = "top" /\ Engine.exception # NoExc

\* C33: whenever plan_mutator is at the head of its loop with no exception
\* stashed, result_stack holds exactly one value, so the pop of line 131
\* cannot fail; while an exception is stashed, while a Msg is in hand and
\* while the engine is suspended at its yield, result_stack is empty; and
\* the engine never ends with the IndexError of a pop from an empty deque.
C33_PendingReply ==
    /\ AboutToSend => Len(Engine.result_stack) = 1
    /\ (FaultPending \/ Engine.pc \in {"offer", "yield"}) =>
          Engine.result_stack = <<>>
    /\ Engine.out # "IndexError"

\* A tail has just been pushed after its head returned: the reply to the
\* head's last Msg is kept in tail_result_cache and result_stack holds the
\* None that primes the tail, and nothing else.
C33_Witness ==
    /\ AboutToSend
    /\ Len(Engine.plan_stack) = 2
    /\ Engine.gen = Top
    /\ Engine.gen # NoGen
    /\ gens[Top].st = "fresh"
    /\ Engine.result_stack = <<None>>
    /\ Has(Engine.tail_result_cache, gens[Top].id)
    /\ Get(Engine.tail_result_cache, gens[Top].id) = "r2"

\* ---- plan_mutator: a head that yields nothing

\* The splices whose head has no Msg to yield and that have no tail.
EmptySplices == {sp \in Splices : gens[sp.head].msgs = <<>> /\ sp.tail = NoGen}
\* This step sends None into such a head, which returns at once.
EmptyHeadReturns ==
    /\ HeadReturns
    /\ \E sp \in EmptySplices : sp.head = Top

\* C34: when msg_proc gives for a Msg m a head that returns without
\* yielding and no tail, that m is not emitted (no Msg is emitted for the
\* yield of the generator that produced it) and the generator that
\* yielded m is resumed with None: the head's return leaves None on
\* result_stack for the generator beneath it.
C34_EmptyHeadDrops ==
    /\ [](\A sp \in EmptySplices : \A k \in 1..Len(emitted) :
             ~(Last(emitted[k].stack) = sp.em /\ emitted[k].idx = sp.idx))
    /\ [][EmptyHeadReturns =>
            /\ gens'[Root].plan_stack = Front(Engine.plan_stack)
            /\ Last(gens'[Root].result_stack) = None]_vars
    /\ [](\A sp \in EmptySplices :
             (gens[sp.head].end # <<>> /\ Len(gens[sp.em].log) >= sp.idx) =>
                 gens[sp.em].log[sp.idx] = <<"send", None>>)

\* ---- plan_mutator: a Msg instance the plan yields again

\* The plan's i-th yield gives a Msg instance it has yielded before.
Reyield(i) == \E j \in 1..(i - 1) : ThePlan.msgs[j] = ThePlan.msgs[i]
\* The Msg in hand was just yielded by the plan, which yielded it before.
ReyieldInHand ==
    /\ Engine.pc = "offer"
    /\ Top = PlanId
    /\ Reyield(ThePlan.pc)
    /\ Engine.msg = ThePlan.msgs[ThePlan.pc]

\* C35: when the plan yields a Msg instance it has yielded before,
\* plan_mutator does not hand it to msg_proc again (no Msg is offered
\* twice, and nothing is spliced in for that yield) and emits the instance
\* itself at once, the plan alone being on the stack, whatever msg_proc
\* gave for its first occurrence.
C35_ReemittedInstance ==
    /\ [](\A a, b \in 1..Len(Engine.offered) :
             a # b => Engine.offered[a] # Engine.offered[b])
    /\ [](\A sp \in Splices : sp.em = PlanId => ~Reyield(sp.idx))
    /\ [][ReyieldInHand =>
            /\ gens'[Root].pc = "yield"
            /\ gens'[Root].offered = Engine.offered
            /\ gens'[Root].plan_stack = <<PlanId>>
            /\ emitted' = Append(emitted, [msg |-> ThePlan.msgs[ThePlan.pc],
                                           stack |-> <<PlanId>>,
                                           idx |-> ThePlan.pc])]_vars

\* caching_repeater(2, [m]) with m replaced by a head of two other Msgs:
\* the Msgs of the head were emitted for the first m, then m itself for the
\* second, and m was offered once.
C35_Witness ==
    /\ ThePlan.msgs = <<1, 1>>
    /\ MsgsOf(emitted) = <<HeadMsg1, HeadMsg2, 1>>
    /\ Last(emitted).stack = <<PlanId>>
    /\ Engine.offered = <<1, HeadMsg1, HeadMsg2>>
    /\ Len(Engine.splices) = 1

\* ---- finalize_wrapper: a fault while the final plan runs

\* The answers by which the driver threw a fault at a Msg of the final plan.
FaultsAtCleanup ==
    {k \in 1..Len(answers) :
        answers[k][1] = "throw" /\ emitted[k].msg \in Elems(Cleanup.msgs)}
\* The final plan ended with an exception.
CleanupFailed == Cleanup.end # <<>> /\ Cleanup.end[1] = "raise"

\* C36 as stated: once the driver has thrown a fault at a Msg of the final
\* plan, or the final plan has raised, no further Msg is emitted and the
\* exception that leaves finalize_wrapper is that fault, or the one the
\* final plan raised.
C36_AsStated ==
    /\ \A k \in FaultsAtCleanup :
          /\ Len(emitted) = k
          /\ result.tag \in {"return", "raise"} =>
                 result.tag = "raise" /\ result.val = answers[k][2]
    /\ CleanupFailed =>
          result.tag = "raise" /\ result.val = Cleanup.end[2]

\* C36: when the final plan ends with an exception, one it raised or a
\* fault the driver threw at one of its Msgs and it did not handle, that
\* is the step in which finalize_wrapper ends: the Msgs of the final plan
\* emitted are those up to that point and no other is emitted, and the
\* exception that leaves finalize_wrapper is the one that left the final
\* plan, also when the plan had ended with an exception of its own.
C36_FaultDuringCleanup ==
    CleanupFailed =>
        /\ result.tag = "raise"
        /\ result.val = Cleanup.end[2]
        /\ Wrapper.at = "done"
        /\ Len(emitted) >= Cleanup.pc
        /\ SubSeq(MsgsOf(emitted), Len(emitted) - Cleanup.pc + 1, Len(emitted))
             = CleanupEmitted
        /\ ThePlan.st # "fresh" =>
             Len(emitted) <= ThePlan.pc + Cleanup.pc + 1

\* The plan raised EPlan after its first Msg, the driver threw EDrv at the
\* first of the two Msgs of the final plan: the second was not emitted and
\* EDrv, not EPlan, left finalize_wrapper.
C36_Witness ==
    /\ ThePlan.end = <<"raise", "EPlan">>
    /\ Len(Cleanup.msgs) = 2
    /\ Cleanup.end = <<"raise", "EDrv">>
    /\ MsgsOf(emitted) = <<1, CleanupBase + 1>>
    /\ answers = <<<<"send", "r1">>, <<"throw", "EDrv">>>>
    /\ result = [tag |-> "raise", msg |-> NoMsg, val |-> "EDrv"]

\* ---- contingency_wrapper: a fault while else_plan() runs

\* The plan returned and else_plan was given.
ElseEntered ==
    /\ ThePlan.end # <<>> /\ ThePlan.end[1] = "return"
    /\ Wrapper.else_plan # NoGen
\* The answers by which the driver threw a fault at a Msg of else_plan().
FaultsAtElse ==
    {k \in 1..Len(answers) :
        answers[k][1] = "throw" /\ emitted[k].msg \in Elems(ElseHook.msgs)}
\* else_plan() ended with an exception.
ElseFailed == ElseHook.end # <<>> /\ ElseHook.end[1] = "raise"

\* C37 as stated: when the plan has returned and else_plan() has raised or
\* the driver has thrown a fault at one of its Msgs, except_plan is never
\* started, and once the wrapper has ended with final_plan() (when given)
\* run to its end, the Msgs of final_plan() are the last emitted and the
\* wrapper raised that fault.
C37_AsStated ==
    (ElseEntered /\ (ElseFailed \/ FaultsAtElse # {})) =>
        /\ ExceptHook.st = "fresh"
        /\ (CallEnded /\ HookCompleted(Wrapper.final_plan, CleanupId)) =>
              /\ result.tag = "raise"
              /\ \A k \in FaultsAtElse : result.val = answers[k][2]
              /\ ElseFailed => result.val = ElseHook.end[2]

\* C37: when the plan has returned and else_plan() has ended with an
\* exception (one it raised, or a fault the driver threw at one of its Msgs
\* and it did not handle), except_plan is never started, the wrapper goes
\* on with final_plan() when it is given, and once the wrapper has ended
\* with final_plan() run to its end, the Msgs emitted are those of the
\* plan, those of else_plan() up to the fault and those of final_plan(),
\* and the wrapper raised the exception of else_plan().
C37_FaultInElse ==
    (ElseEntered /\ ElseFailed) =>
        /\ ExceptHook.st = "fresh"
        /\ Wrapper.final_plan # NoGen => Cleanup.st # "fresh"
        /\ (CallEnded /\ HookCompleted(Wrapper.final_plan, CleanupId)) =>
              /\ MsgsOf(emitted) = PlanEmitted
                                   \o SubSeq(ElseHook.msgs, 1, ElseHook.pc)
                                   \o HookMsgs(Wrapper.final_plan, CleanupId)
              /\ result.tag = "raise"
              /\ result.val = ElseHook.end[2]

\* The plan returned, the driver threw EDrv at the first of the two Msgs
\* of else_plan(), final_plan() emitted its two Msgs and returned,
\* except_plan was given and never started, and the wrapper raised EDrv.
C37_Witness ==
    /\ ThePlan.end = <<"return", "pv">>
    /\ Wrapper.else_plan # NoGen /\ ElseHook.end = <<"raise", "EDrv">>
    /\ Len(ElseHook.msgs) = 2 /\ ElseHook.pc = 1
    /\ Wrapper.except_plan # NoGen /\ ExceptHook.st = "fresh"
    /\ Wrapper.final_plan # NoGen /\ Cleanup.end = <<"return", "fv">>
    /\ Len(Cleanup.msgs) = 2
    /\ MsgsOf(emitted) = PlanEmitted \o <<ElseBase + 1>> \o Cleanup.msgs
    /\ result = [tag |-> "raise", msg |-> NoMsg, val |-> "EDrv"]

\* ---- plan_mutator: progress

\* The engine is between two emissions: running its loop.
Internal == Engine.pc \in {"fresh", "top", "offer"}
\* The engine has returned or raised.
Completed == Engine.pc \in {"returned", "raised"}

\* C38: with generators that yield finitely many Msgs, a msg_proc that
\* passes every Msg a spliced-in generator yields for the first time, and
\* a driver that answers every Msg with a reply, the loop of plan_mutator
\* never runs forever: it always comes to its yield or its end again
\* (finitely many internal steps between emissions); plan_stack never holds
\* more than the plan and one head or tail; and the engine eventually
\* returns or raises, after which it takes no step.
C38_Progress ==
    /\ []<>(Suspended \/ Completed)
    /\ [](Len(Engine.plan_stack) <= 2)
    /\ []<>Completed

\* The plan's first Msg was replaced by a head of two Msgs and a tail of
\* two, every Msg was answered with a reply, and the engine returned.
C38_Witness ==
    /\ Engine.pc = "returned"
    /\ Len(Engine.splices) = 1
    /\ Engine.splices[1].tail # NoGen
    /\ Len(gens[Engine.splices[1].head].msgs) = 2
    /\ Len(gens[Engine.splices[1].tail].msgs) = 2
    /\ Len(emitted) = 4 + ThePlan.pc - 1
    /\ Len(answers) = Len(emitted)
    /\ \A k \in 1..Len(answers) : answers[k][1] = "send"

\* ---- result_stack beside plan_stack

\* This step puts a generator on plan_stack that was not on it.
Pushed ==
    /\ gens'[Root].plan_stack # <<>>
    /\ Last(gens'[Root].plan_stack) \notin Elems(Engine.plan_stack)

\* C39 as stated: at the head of the loop result_stack holds one value for
\* each generator on plan_stack.
C39_AsStated == AboutToSend => Len(Engine.result_stack) = Len(Engine.plan_stack)

\* C39: result_stack never holds more than one value, the one the generator
\* on top of plan_stack is resumed with next, however many generators are
\* stacked; and each time the plan, a head or a tail is pushed, result_stack
\* holds None and nothing else afterwards, unless an exception is stashed
\* for the generator pushed (a tail pushed after its head failed, lines
\* 170-177), when result_stack is left empty.
C39_ReplySlot ==
    /\ [](Len(Engine.result_stack) <= 1)
    /\ [][(Pushed /\ gens'[Root].exception = NoExc) =>
            gens'[Root].result_stack = <<None>>]_vars
    /\ [][(Pushed /\ gens'[Root].exception # NoExc) =>
            /\ gens'[Root].result_stack = <<>>
            /\ Last(gens'[Root].plan_stack) = gens'[Root].gen]_vars

\* A head has just been pushed on top of the plan, its tail stashed: two
\* generators are stacked and result_stack holds the one None.
C39_Witness ==
    /\ AboutToSend
    /\ Len(Engine.plan_stack) = 2
    /\ Top = Engine.new_gen
    /\ gens[Top].st = "fresh"
    /\ Has(Engine.tail_cache, gens[Top].id)
    /\ Get(Engine.tail_cache, gens[Top].id) # NoGen
    /\ Engine.result_stack = <<None>>

\* ---- plan_mutator: the order of the close() calls

\* This step is the driver closing the engine at its yield.
CloseArrives ==
    /\ Engine.pc = "yield"
    /\ Len(answers') = Len(answers) + 1
    /\ Last(answers')[1] = "close"

\* The tails stashed in tail_cache for a head, not on plan_stack.
StashedTails == {p[2] : p \in Engine.tail_cache} \ (Elems(Engine.plan_stack) \cup {NoGen})

\* C40: when the driver closes plan_mutator at its yield, the close() calls
\* of line 210 are made on the generators of plan_stack in the order of the
\* stack, the plan first and the generator pushed last at the end, each
\* once; plan_stack itself is not changed; and a tail stashed in tail_cache
\* and not yet pushed is not touched: it is not closed and stays unstarted.
C40_CloseOrder ==
    /\ [][CloseArrives =>
            /\ gens'[Root].close_log = Engine.plan_stack
            /\ gens'[Root].plan_stack = Engine.plan_stack
            /\ Engine.close_log = <<>>
            /\ \A t \in StashedTails : gens'[t] = gens[t]]_vars
    /\ [](Engine.pc = "closed" =>
            /\ Engine.close_log = Engine.plan_stack
            /\ Engine.close_log[1] = PlanId
            /\ \A t \in StashedTails :
                  /\ gens[t].st = "fresh"
                  /\ t \notin Elems(Engine.close_log))

\* The engine was closed at a Msg of a head pushed on top of the plan, the
\* head's tail still stashed: the plan was closed first, the head second,
\* and the tail is unstarted.
C40_Witness ==
    /\ Engine.pc = "closed"
    /\ Len(Engine.close_log) = 2
    /\ Engine.close_log[1] = PlanId
    /\ Engine.close_log[2] = Engine.new_gen
    /\ gens[Engine.close_log[2]].st = "closed"
    /\ gens[Engine.close_log[2]].pc >= 1
    /\ Engine.tail_gen \in StashedTails
    /\ gens[Engine.tail_gen].st = "fresh"

====
